---- MODULE Spec2Model ----
(***************************************************************************)
(* Encrypted key-value container of codn: cluster encode/decode            *)
(* (Encrypt, DecryptedIO), the sequential writer and indexed reader of     *)
(* the cluster stream, and the CryptoDir get/set operations on top.        *)
(*                                                                         *)
(* Bytes are modelled by small integers, byte strings by sequences.  A     *)
(* value that Python gives as Optional[...] is a sequence of length 0      *)
(* (None) or 1 (the value).  The container keeps its clusters as a bag:    *)
(* every update shuffles the whole list, and no reader depends on order.   *)
(***************************************************************************)
EXTENDS Integers, Sequences, FiniteSets, Bags, TLC

None == << >>
Some(x) == << x >>
IsNone(o) == Len(o) = 0
Val(o) == o[1]

(***************************************************************************)
(* Sizes.                                                                  *)
(***************************************************************************)
\* scaled-down cluster size: two content bytes per cluster
CLUSTER_SIZE == 62
FULL_LEN == 32
ENCRYPTION_NONCE_LEN == 12
MAC_LEN == 16
HEADER_LEN == 12
CLUSTER_META_SIZE == FULL_LEN + HEADER_LEN + MAC_LEN
MAX_CLUSTER_CONTENT_SIZE == CLUSTER_SIZE - CLUSTER_META_SIZE

\* A uint32 is kept as its two big-endian 16-bit halves << hi, lo >>
U32(hi, lo) == << hi, lo >>
IsU32(x) == 0 <= x[1] /\ x[1] <= 65535 /\ 0 <= x[2] /\ x[2] <= 65535
U32Less(a, b) == a[1] < b[1] \/ (a[1] = b[1] /\ a[2] < b[2])
U32Succ(x) == IF x[2] = 65535 THEN << x[1] + 1, 0 >> ELSE << x[1], x[2] + 1 >>

FAKE_CONTENT_VERSION == U32(65535, 65535)
MAX_PART_IDX == 255

\* longest plaintext the bounded inputs hold
MaxLen == 3
\* most decoys one update adds
MaxFakes == 1
\* updates of one name stop once its version reaches this
MaxVersion == 2
\* most calls made on one DecryptedIO object
MaxCalls == 3
\* the version of a name written 0xFFFFFFFC times: three below the decoy version
NearLimit == U32(65535, 65532)

ByteMod == 4
Codenames == {"alice", "bob"}
Salts == {"s1"}
Nonces == {"n1"}
RandomCrcs == {7}
InitialCounts == {0, 1}

(***************************************************************************)
(* 16-bit flag helpers.                                                    *)
(***************************************************************************)
get_highest_bit_16(x) ==
  IF ~(0 <= x /\ x <= 65535) THEN [err |-> "ValueError", v |-> FALSE]
  ELSE [err |-> "ok", v |-> ((x \div 32768) % 2 = 1)]

set_highest_bit_16(x, value) ==
  IF ~(0 <= x /\ x <= 65535) THEN [err |-> "ValueError", v |-> 0]
  ELSE IF value THEN [err |-> "ok", v |-> (x % 32768) + 32768]
  ELSE [err |-> "ok", v |-> x % 32768]

get_lower15bits(x) == x % 32768

(***************************************************************************)
(* Codenames as byte blocks.  A character is its code: 0 is NUL, 1 to 127  *)
(* are the other ASCII characters, greater codes are not ASCII.            *)
(***************************************************************************)
CODENAME_LENGTH == 24

\* get_random_bytes(n): the bytes of one draw
get_random_bytes(n, draw) ==
  [i \in 1 .. n |->
     CASE draw = "nul" -> 0
       [] draw = "high" -> 255
       [] draw = "nul_first" -> IF i = 1 THEN 0 ELSE 65
       [] draw = "nul_last" -> IF i = n THEN 0 ELSE 65]

RandomDraws == {"nul", "high", "nul_first", "nul_last"}

\* codename_to_bytes: [err, bytes], bytes None when an error is raised;
\* draw is the draw of the padding
codename_to_bytes(codename, draw) ==
  LET raise(e) == [err |-> e, bytes |-> None]
      length == Len(codename)
  IN IF \E i \in 1 .. length : codename[i] = 0 THEN raise("ValueError")
     ELSE IF \E i \in 1 .. length : codename[i] > 127 THEN raise("UnicodeEncodeError")
     ELSE IF length > CODENAME_LENGTH THEN raise("ValueError")
     ELSE IF length < CODENAME_LENGTH
          THEN [err |-> "ok",
                bytes |-> Some(codename \o << 0 >>
                               \o get_random_bytes(CODENAME_LENGTH - length - 1, draw))]
     ELSE [err |-> "ok", bytes |-> Some(codename)]

\* bytes_to_codename cutting at the last NUL of the block
bytes_to_codename_last(data) ==
  LET nuls == {i \in 1 .. Len(data) : data[i] = 0}
      prefix == IF nuls = {} THEN data
                ELSE SubSeq(data, 1, (CHOOSE i \in nuls : \A j \in nuls : j <= i) - 1)
  IN IF \E i \in 1 .. Len(prefix) : prefix[i] > 127
     THEN [err |-> "UnicodeDecodeError", s |-> None]
     ELSE [err |-> "ok", s |-> Some(prefix)]

\* bytes_to_codename: the bytes before the first NUL, decoded as ASCII
bytes_to_codename(data) ==
  LET nuls == {i \in 1 .. Len(data) : data[i] = 0}
      prefix == IF nuls = {} THEN data
                ELSE SubSeq(data, 1, (CHOOSE i \in nuls : \A j \in nuls : i <= j) - 1)
  IN IF \E i \in 1 .. Len(prefix) : prefix[i] > 127
     THEN [err |-> "UnicodeDecodeError", s |-> None]
     ELSE [err |-> "ok", s |-> Some(prefix)]

(***************************************************************************)
(* Primitives: key derivation, imprint, checksums, stream cipher.          *)
(***************************************************************************)
\* KDF: equal keys imply equal (codename, salt)
CodenameKey(codename, salt) == << codename, salt >>

\* tag of an imprint computed from the nonce alone
ImprintTag_keyless(cnk, nonce) == << "blake2s", nonce >>

\* tag of an imprint: a collision-free function of key and nonce
ImprintTag(cnk, nonce) == << "blake2s", cnk, nonce >>

Imprint(cnk, nonce) == [nonce |-> nonce, tag |-> ImprintTag(cnk, nonce)]

bytes_to_nonce(imprint_bytes) == imprint_bytes.nonce

pk_matches_imprint_bytes(cnk, imprint_bytes) ==
  imprint_bytes.tag = ImprintTag(cnk, bytes_to_nonce(imprint_bytes))

blake2s_128(data) == << "blake2s", data >>

\* CRC-32 of a body: positional sum, injective on bodies of bounded length
RECURSIVE crc32(_)
crc32(body) ==
  IF Len(body) = 0 THEN 0
  ELSE 1 + body[Len(body)] + (ByteMod + 1) * crc32(SubSeq(body, 1, Len(body) - 1))

\* ChaCha20 keystream applied at stream offset `at`
cipher_encrypt(cnk, nonce, at, data) ==
  [ek |-> cnk, en |-> nonce, at |-> at, pt |-> data]

\* decrypting at the same key, nonce and offset gives the plaintext back
cipher_decrypt(cnk, nonce, at, ct) ==
  IF ct.ek = cnk /\ ct.en = nonce /\ ct.at = at
  THEN [ok |-> TRUE, pt |-> ct.pt]
  ELSE [ok |-> FALSE, pt |-> << >>]

\* key of the random clusters written at creation: no codename derives it
RandomKey == CodenameKey("", "")

(***************************************************************************)
(* Encrypt: one cluster from one part of a value, or a decoy.              *)
(***************************************************************************)
\* Encrypt.__init__ keeping a constant in place of the data_version argument
Encrypt_const_version(cnk, data_version, target_size, part_idx, parts_len, part_size) ==
  LET self == [cnk |-> cnk, data_version |-> U32(0, 1),
               target_size |-> target_size, part_idx |-> part_idx,
               parts_len |-> parts_len, part_size |-> part_size]
      raise(e) == [err |-> e, self |-> self]
  IN IF ~(0 <= part_idx /\ part_idx <= MAX_PART_IDX) THEN raise("ValueError")
     ELSE IF ~(1 <= parts_len /\ parts_len <= MAX_PART_IDX + 1) THEN raise("ValueError")
     ELSE IF ~(MAX_CLUSTER_CONTENT_SIZE <= 32767) THEN raise("AssertionError")
     ELSE IF ~IsNone(part_size)
             /\ ~(0 <= Val(part_size) /\ Val(part_size) <= MAX_CLUSTER_CONTENT_SIZE)
          THEN raise("ValueError")
     ELSE IF IsNone(part_size) /\ ~(part_idx = 0 /\ parts_len = 1)
          THEN raise("ValueError")
     ELSE raise("ok")

\* Encrypt.__init__ keeping the successor of the data_version argument
Encrypt_next_version(cnk, data_version, target_size, part_idx, parts_len, part_size) ==
  LET self == [cnk |-> cnk, data_version |-> U32Succ(data_version),
               target_size |-> target_size, part_idx |-> part_idx,
               parts_len |-> parts_len, part_size |-> part_size]
      raise(e) == [err |-> e, self |-> self]
  IN IF ~(0 <= part_idx /\ part_idx <= MAX_PART_IDX) THEN raise("ValueError")
     ELSE IF ~(1 <= parts_len /\ parts_len <= MAX_PART_IDX + 1) THEN raise("ValueError")
     ELSE IF ~(MAX_CLUSTER_CONTENT_SIZE <= 32767) THEN raise("AssertionError")
     ELSE IF ~IsNone(part_size)
             /\ ~(0 <= Val(part_size) /\ Val(part_size) <= MAX_CLUSTER_CONTENT_SIZE)
          THEN raise("ValueError")
     ELSE IF IsNone(part_size) /\ ~(part_idx = 0 /\ parts_len = 1)
          THEN raise("ValueError")
     ELSE raise("ok")

\* Encrypt.__init__ asserting that the content size fits into 16 bits
EncryptWith_16bits(max_content, cnk, data_version, target_size, part_idx, parts_len, part_size) ==
  LET self == [cnk |-> cnk, data_version |-> data_version,
               target_size |-> target_size, part_idx |-> part_idx,
               parts_len |-> parts_len, part_size |-> part_size]
      raise(e) == [err |-> e, self |-> self]
  IN IF ~(0 <= part_idx /\ part_idx <= MAX_PART_IDX) THEN raise("ValueError")
     ELSE IF ~(1 <= parts_len /\ parts_len <= MAX_PART_IDX + 1) THEN raise("ValueError")
     ELSE IF ~(max_content <= 65535) THEN raise("AssertionError")
     ELSE IF ~IsNone(part_size)
             /\ ~(0 <= Val(part_size) /\ Val(part_size) <= max_content)
          THEN raise("ValueError")
     ELSE IF IsNone(part_size) /\ ~(part_idx = 0 /\ parts_len = 1)
          THEN raise("ValueError")
     ELSE raise("ok")

\* Encrypt.__init__ in a build whose MAX_CLUSTER_CONTENT_SIZE is max_content:
\* the argument checks, in the order of the code
EncryptWith(max_content, cnk, data_version, target_size, part_idx, parts_len, part_size) ==
  LET self == [cnk |-> cnk, data_version |-> data_version,
               target_size |-> target_size, part_idx |-> part_idx,
               parts_len |-> parts_len, part_size |-> part_size]
      raise(e) == [err |-> e, self |-> self]
  IN IF ~(0 <= part_idx /\ part_idx <= MAX_PART_IDX) THEN raise("ValueError")
     ELSE IF ~(1 <= parts_len /\ parts_len <= MAX_PART_IDX + 1) THEN raise("ValueError")
     ELSE IF ~(max_content <= 32767) THEN raise("AssertionError")
     ELSE IF ~IsNone(part_size)
             /\ ~(0 <= Val(part_size) /\ Val(part_size) <= max_content)
          THEN raise("ValueError")
     ELSE IF IsNone(part_size) /\ ~(part_idx = 0 /\ parts_len = 1)
          THEN raise("ValueError")
     ELSE raise("ok")

\* Encrypt.__init__ taking every part_idx the 16-bit header field can hold
Encrypt_wide_part_idx(cnk, data_version, target_size, part_idx, parts_len, part_size) ==
  LET self == [cnk |-> cnk, data_version |-> data_version,
               target_size |-> target_size, part_idx |-> part_idx,
               parts_len |-> parts_len, part_size |-> part_size]
      raise(e) == [err |-> e, self |-> self]
  IN IF ~(0 <= part_idx /\ part_idx <= 65535) THEN raise("ValueError")
     ELSE IF ~(1 <= parts_len /\ parts_len <= MAX_PART_IDX + 1) THEN raise("ValueError")
     ELSE IF ~(MAX_CLUSTER_CONTENT_SIZE <= 32767) THEN raise("AssertionError")
     ELSE IF ~IsNone(part_size)
             /\ ~(0 <= Val(part_size) /\ Val(part_size) <= MAX_CLUSTER_CONTENT_SIZE)
          THEN raise("ValueError")
     ELSE IF IsNone(part_size) /\ ~(part_idx = 0 /\ parts_len = 1)
          THEN raise("ValueError")
     ELSE raise("ok")

\* Encrypt.__init__ under the cluster size of the model
Encrypt(cnk, data_version, target_size, part_idx, parts_len, part_size) ==
  EncryptWith(MAX_CLUSTER_CONTENT_SIZE, cnk, data_version, target_size, part_idx, parts_len, part_size)

\* read_or_fail(source, n): exactly n bytes from the stream or InsufficientData
read_or_fail(source, n) ==
  IF Len(source) < n THEN [err |-> "InsufficientData", data |-> << >>]
  ELSE [err |-> "ok", data |-> SubSeq(source, 1, n)]

\* io_to_io taking the part after the last for the last part
io_to_io_last_off(self, source, nonce, rnd_crc) ==
  LET is_fake == IsNone(source)
      raise(e) == [err |-> e, out |-> << >>]
      content_ver == IF is_fake THEN FAKE_CONTENT_VERSION ELSE self.data_version
      part_size == IF ~IsNone(self.part_size) THEN Val(self.part_size)
                   ELSE IF is_fake THEN 0
                   ELSE Len(Val(source))
      is_last_part == (self.part_idx = self.parts_len)
      meta_end == FULL_LEN + HEADER_LEN + MAC_LEN
      write(header_data, body_bytes, padding_size) ==
        IF padding_size < 0 THEN raise("AssertionError")
        ELSE [err |-> "ok",
              out |-> << [imprint |-> Imprint(self.cnk, nonce),
                          hdr |-> cipher_encrypt(self.cnk, nonce, FULL_LEN, header_data),
                          mac |-> cipher_encrypt(self.cnk, nonce, FULL_LEN + HEADER_LEN,
                                                 blake2s_128(header_data)),
                          body |-> cipher_encrypt(self.cnk, nonce, CLUSTER_META_SIZE,
                                                  body_bytes),
                          pad |-> padding_size] >>]
      with_body(las, body) ==
        IF body.err # "ok" THEN raise(body.err)
        ELSE IF meta_end # CLUSTER_META_SIZE THEN raise("AssertionError")
        ELSE write(<< IF is_fake THEN rnd_crc ELSE crc32(body.data),
                      self.part_idx, las.v, content_ver >>,
                   body.data,
                   self.target_size - (meta_end + Len(body.data)))
      with_flag(las) ==
        IF las.err # "ok" THEN raise(las.err)
        ELSE IF get_lower15bits(las.v) # part_size THEN raise("AssertionError")
        ELSE IF get_highest_bit_16(las.v).v # is_last_part THEN raise("AssertionError")
        ELSE with_body(las, IF is_fake THEN [err |-> "ok", data |-> << >>]
                            ELSE read_or_fail(Val(source), part_size))
  IN IF ~IsU32(content_ver) THEN raise("OverflowError")
     ELSE IF get_lower15bits(part_size) # part_size THEN raise("AssertionError")
     ELSE with_flag(set_highest_bit_16(part_size, is_last_part))

\* Encrypt.io_to_io: source is None for a decoy, Some(bytes) for a part;
\* nonce and rnd_crc are the random draws of the call
io_to_io(self, source, nonce, rnd_crc) ==
  LET is_fake == IsNone(source)
      raise(e) == [err |-> e, out |-> << >>]
      content_ver == IF is_fake THEN FAKE_CONTENT_VERSION ELSE self.data_version
      part_size == IF ~IsNone(self.part_size) THEN Val(self.part_size)
                   ELSE IF is_fake THEN 0
                   ELSE Len(Val(source))
      is_last_part == (self.part_idx = self.parts_len - 1)
      meta_end == FULL_LEN + HEADER_LEN + MAC_LEN
      write(header_data, body_bytes, padding_size) ==
        IF padding_size < 0 THEN raise("AssertionError")
        ELSE [err |-> "ok",
              out |-> << [imprint |-> Imprint(self.cnk, nonce),
                          hdr |-> cipher_encrypt(self.cnk, nonce, FULL_LEN, header_data),
                          mac |-> cipher_encrypt(self.cnk, nonce, FULL_LEN + HEADER_LEN,
                                                 blake2s_128(header_data)),
                          body |-> cipher_encrypt(self.cnk, nonce, CLUSTER_META_SIZE,
                                                  body_bytes),
                          pad |-> padding_size] >>]
      with_body(las, body) ==
        IF body.err # "ok" THEN raise(body.err)
        ELSE IF meta_end # CLUSTER_META_SIZE THEN raise("AssertionError")
        ELSE write(<< IF is_fake THEN rnd_crc ELSE crc32(body.data),
                      self.part_idx, las.v, content_ver >>,
                   body.data,
                   self.target_size - (meta_end + Len(body.data)))
      with_flag(las) ==
        IF las.err # "ok" THEN raise(las.err)
        ELSE IF get_lower15bits(las.v) # part_size THEN raise("AssertionError")
        ELSE IF get_highest_bit_16(las.v).v # is_last_part THEN raise("AssertionError")
        ELSE with_body(las, IF is_fake THEN [err |-> "ok", data |-> << >>]
                            ELSE read_or_fail(Val(source), part_size))
  IN IF ~IsU32(content_ver) THEN raise("OverflowError")
     ELSE IF get_lower15bits(part_size) # part_size THEN raise("AssertionError")
     ELSE with_flag(set_highest_bit_16(part_size, is_last_part))

\* number of bytes of a cluster on disk
ClusterLen(c) == FULL_LEN + HEADER_LEN + MAC_LEN + Len(c.body.pt) + c.pad

(***************************************************************************)
(* DecryptedIO: lazy decoding of one cluster.                              *)
(***************************************************************************)
\* a source that ends before the imprint does: size bytes, fewer than FULL_LEN
ShortSource(size) == [size |-> size]

IsShort(c) == "size" \in DOMAIN c

\* number of bytes the source of a decoder holds
SourceLen(c) == IF IsShort(c) THEN c.size ELSE ClusterLen(c)

\* the imprint_a_bytes property: read_or_fail of FULL_LEN bytes from position 0
imprint_a_bytes(c) ==
  IF SourceLen(c) < FULL_LEN THEN [err |-> "InsufficientData", bytes |-> None]
  ELSE [err |-> "ok", bytes |-> Some(c.imprint)]

\* the belongs_to_namegroup property without its except clause
try_belongs_to_namegroup_uncaught(fpk, c) ==
  LET of(imp) == IF imp.err # "ok" THEN [err |-> imp.err, v |-> FALSE]
                 ELSE [err |-> "ok", v |-> pk_matches_imprint_bytes(fpk, Val(imp.bytes))]
  IN of(imprint_a_bytes(c))

\* the belongs_to_namegroup property with the error it raises: InsufficientData
\* of the imprint read is caught and gives False
try_belongs_to_namegroup(fpk, c) ==
  LET of(imp) == IF imp.err = "InsufficientData" THEN [err |-> "ok", v |-> FALSE]
                 ELSE IF imp.err # "ok" THEN [err |-> imp.err, v |-> FALSE]
                 ELSE [err |-> "ok", v |-> pk_matches_imprint_bytes(fpk, Val(imp.bytes))]
  IN of(imprint_a_bytes(c))

\* belongs_to_namegroup without the comparison of the imprint
belongs_to_namegroup_any(fpk, c) == TRUE

belongs_to_namegroup(fpk, c) == try_belongs_to_namegroup(fpk, c).v

\* __read_header taking the whole 16-bit field for the part size
header_unmasked(fpk, c) ==
  LET raise(e) == [err |-> e, h |-> << >>]
      nonce == bytes_to_nonce(c.imprint)
      unpack(hd) ==
        IF get_highest_bit_16(hd[3]).err # "ok" THEN raise("ValueError")
        ELSE [err |-> "ok",
              h |-> << [content_crc32 |-> hd[1],
                        data_version |-> hd[4],
                        part_size |-> hd[3],
                        part_idx |-> hd[2],
                        is_last_part |-> get_highest_bit_16(hd[3]).v] >>]
      decrypted(hd, hm) ==
        IF ~hd.ok \/ ~hm.ok THEN raise("ChecksumMismatch")
        ELSE IF blake2s_128(hd.pt) # hm.pt THEN raise("ChecksumMismatch")
        ELSE unpack(hd.pt)
  IN IF ~belongs_to_namegroup(fpk, c) THEN raise("GroupImprintMismatch")
     ELSE decrypted(cipher_decrypt(fpk, nonce, FULL_LEN, c.hdr),
                    cipher_decrypt(fpk, nonce, FULL_LEN + HEADER_LEN, c.mac))

\* __read_header unpacking the two 16-bit fields in the other order
header_swapped(fpk, c) ==
  LET raise(e) == [err |-> e, h |-> << >>]
      nonce == bytes_to_nonce(c.imprint)
      unpack(hd) ==
        IF get_highest_bit_16(hd[2]).err # "ok" THEN raise("ValueError")
        ELSE [err |-> "ok",
              h |-> << [content_crc32 |-> hd[1],
                        data_version |-> hd[4],
                        part_size |-> get_lower15bits(hd[2]),
                        part_idx |-> hd[3],
                        is_last_part |-> get_highest_bit_16(hd[2]).v] >>]
      decrypted(hd, hm) ==
        IF ~hd.ok \/ ~hm.ok THEN raise("ChecksumMismatch")
        ELSE IF blake2s_128(hd.pt) # hm.pt THEN raise("ChecksumMismatch")
        ELSE unpack(hd.pt)
  IN IF ~belongs_to_namegroup(fpk, c) THEN raise("GroupImprintMismatch")
     ELSE decrypted(cipher_decrypt(fpk, nonce, FULL_LEN, c.hdr),
                    cipher_decrypt(fpk, nonce, FULL_LEN + HEADER_LEN, c.mac))

\* DecryptedIO.__read_header, reached through the header property
header(fpk, c) ==
  LET raise(e) == [err |-> e, h |-> << >>]
      nonce == bytes_to_nonce(c.imprint)
      unpack(hd) ==
        IF get_highest_bit_16(hd[3]).err # "ok" THEN raise("ValueError")
        ELSE [err |-> "ok",
              h |-> << [content_crc32 |-> hd[1],
                        data_version |-> hd[4],
                        part_size |-> get_lower15bits(hd[3]),
                        part_idx |-> hd[2],
                        is_last_part |-> get_highest_bit_16(hd[3]).v] >>]
      decrypted(hd, hm) ==
        IF ~hd.ok \/ ~hm.ok THEN raise("ChecksumMismatch")
        ELSE IF blake2s_128(hd.pt) # hm.pt THEN raise("ChecksumMismatch")
        ELSE unpack(hd.pt)
  IN IF ~belongs_to_namegroup(fpk, c) THEN raise("GroupImprintMismatch")
     ELSE decrypted(cipher_decrypt(fpk, nonce, FULL_LEN, c.hdr),
                    cipher_decrypt(fpk, nonce, FULL_LEN + HEADER_LEN, c.mac))

\* contains_data taking a cluster of part_size 0 for a decoy
contains_data_nonempty(fpk, c) ==
  LET of(h) == IF h.err # "ok" THEN [err |-> h.err, v |-> FALSE]
               ELSE [err |-> "ok",
                     v |-> Val(h.h).data_version # FAKE_CONTENT_VERSION
                           /\ Val(h.h).part_size > 0]
  IN IF ~belongs_to_namegroup(fpk, c) THEN [err |-> "ok", v |-> FALSE]
     ELSE of(header(fpk, c))

\* contains_data without the comparison against FAKE_CONTENT_VERSION
contains_data_any(fpk, c) ==
  LET of(h) == IF h.err # "ok" THEN [err |-> h.err, v |-> FALSE]
               ELSE [err |-> "ok", v |-> TRUE]
  IN IF ~belongs_to_namegroup(fpk, c) THEN [err |-> "ok", v |-> FALSE]
     ELSE of(header(fpk, c))

\* DecryptedIO.contains_data; a failing header read propagates as err
contains_data(fpk, c) ==
  LET of(h) == IF h.err # "ok" THEN [err |-> h.err, v |-> FALSE]
               ELSE [err |-> "ok", v |-> Val(h.h).data_version # FAKE_CONTENT_VERSION]
  IN IF ~belongs_to_namegroup(fpk, c) THEN [err |-> "ok", v |-> FALSE]
     ELSE of(header(fpk, c))

\* DecryptedIO.read_data on a decoder whose data was not read before
read_data(fpk, c) ==
  LET raise(e) == [err |-> e, body |-> << >>]
      avail == Len(c.body.pt) + c.pad
      checked(h, body) ==
        IF crc32(body) # h.content_crc32 THEN raise("ChecksumMismatch")
        ELSE [err |-> "ok", body |-> body]
      read_and_decrypt(h, dec) ==
        IF avail < h.part_size THEN raise("InsufficientData")
        ELSE IF ~dec.ok \/ h.part_size > Len(c.body.pt) THEN raise("ChecksumMismatch")
        ELSE checked(h, SubSeq(dec.pt, 1, h.part_size))
      with_header(h) ==
        IF h.err # "ok" THEN raise(h.err)
        ELSE read_and_decrypt(Val(h.h),
                              cipher_decrypt(fpk, bytes_to_nonce(c.imprint),
                                             CLUSTER_META_SIZE, c.body))
  IN with_header(header(fpk, c))

is_content_io(fpk, c) == contains_data(fpk, c).v

\* is_fake_io without the test of contains_data
is_fake_io_any(fpk, c) == belongs_to_namegroup(fpk, c)

is_fake_io(fpk, c) == belongs_to_namegroup(fpk, c) /\ ~contains_data(fpk, c).v

(***************************************************************************)
(* DecryptedIO as an object: the position of its stream, the header it     *)
(* caches and the flag of read_data.  Each call gives the object after the *)
(* call, the error raised ("ok" for none) and the value returned.          *)
(***************************************************************************)
\* DecryptedIO.__init__ on a stream at position 0
\* header_reads counts the runs of __read_header, decrypted is the end of the
\* last bytes of the stream that went through the cipher
DecryptedIO(fpk, source) ==
  [fpk |-> fpk, source |-> source, pos |-> 0, hdr |-> None, data_read |-> FALSE,
   header_reads |-> 0, decrypted |-> 0]

\* __read_header reads its fields of 4, 2, 2, 4 and 16 bytes one by one: the
\* number of bytes it decrypts when `remaining` bytes are left in the stream
header_bytes_decrypted(remaining) ==
  IF remaining >= HEADER_LEN + MAC_LEN THEN HEADER_LEN + MAC_LEN
  ELSE IF remaining >= HEADER_LEN THEN HEADER_LEN
  ELSE IF remaining >= 8 THEN 8
  ELSE IF remaining >= 6 THEN 6
  ELSE IF remaining >= 4 THEN 4
  ELSE 0

\* position of the stream once the imprint was asked for: the imprint is read
\* from position 0, as far as the source goes
after_imprint(d) ==
  IF d.pos # 0 THEN d.pos
  ELSE IF SourceLen(d.source) < FULL_LEN THEN SourceLen(d.source)
  ELSE FULL_LEN

\* the belongs_to_namegroup property of the object
dio_belongs_to_namegroup(d) ==
  LET of(r) == [d |-> [d EXCEPT !.pos = after_imprint(d)], err |-> r.err, v |-> r.v]
  IN of(try_belongs_to_namegroup(d.fpk, d.source))

\* the header property: the imprint is read once, the header is cached when
\* its checksum is right; a read that starts after a failed one decrypts the
\* bytes that follow and finds no checksum in them
dio_header(d) ==
  LET at == after_imprint(d)
      raise(pos, e) == [d |-> [d EXCEPT !.pos = pos], err |-> e, h |-> None]
      again(pos, e) ==
        [d |-> [d EXCEPT !.pos = pos, !.header_reads = @ + 1,
                         !.decrypted = at + header_bytes_decrypted(ClusterLen(d.source) - at)],
         err |-> e, h |-> None]
      first(r) == [d |-> [d EXCEPT !.pos = CLUSTER_META_SIZE, !.hdr = r.h,
                                   !.header_reads = @ + 1,
                                   !.decrypted = CLUSTER_META_SIZE],
                   err |-> r.err, h |-> r.h]
  IN IF ~belongs_to_namegroup(d.fpk, d.source) THEN raise(at, "GroupImprintMismatch")
     ELSE IF ~IsNone(d.hdr) THEN [d |-> d, err |-> "ok", h |-> d.hdr]
     ELSE IF at = FULL_LEN THEN first(header(d.fpk, d.source))
     ELSE IF ClusterLen(d.source) - at < HEADER_LEN + MAC_LEN
          THEN again(ClusterLen(d.source), "InsufficientData")
     ELSE again(at + HEADER_LEN + MAC_LEN, "ChecksumMismatch")

\* the contains_data property of the object: False without a header read when
\* the imprint does not match, else the header's version is not the decoys'
dio_contains_data(d) ==
  LET of_header(hr) ==
        IF hr.err # "ok" THEN [d |-> hr.d, err |-> hr.err, v |-> FALSE]
        ELSE [d |-> hr.d, err |-> "ok",
              v |-> Val(hr.h).data_version # FAKE_CONTENT_VERSION]
      of(b) == IF b.err # "ok" THEN b
               ELSE IF ~b.v THEN b
               ELSE of_header(dio_header(d))
  IN of(dio_belongs_to_namegroup(d))

\* DecryptedIO.read_data without the assignment of _data_read
dio_read_data_unflagged(d) ==
  LET raise(obj, e) == [d |-> obj, err |-> e, body |-> None]
      body_read(obj, h, r) ==
        IF r.err = "InsufficientData"
        THEN raise([obj EXCEPT !.pos = ClusterLen(obj.source)], r.err)
        ELSE IF r.err # "ok"
        THEN raise([obj EXCEPT !.pos = CLUSTER_META_SIZE + h.part_size,
                               !.decrypted = CLUSTER_META_SIZE + h.part_size], r.err)
        ELSE [d |-> [obj EXCEPT !.pos = CLUSTER_META_SIZE + h.part_size,
                                !.decrypted = CLUSTER_META_SIZE + h.part_size],
              err |-> "ok", body |-> Some(r.body)]
      with_header(hr) ==
        IF hr.err # "ok" THEN raise(hr.d, hr.err)
        ELSE IF hr.d.pos # CLUSTER_META_SIZE THEN raise(hr.d, "AssertionError")
        ELSE body_read(hr.d, Val(hr.h), read_data(d.fpk, d.source))
  IN IF d.data_read THEN raise(d, "RuntimeError")
     ELSE with_header(dio_header(d))

\* DecryptedIO.read_data: refused once the data was read, then the header,
\* the position after it, the body and its CRC
dio_read_data(d) ==
  LET raise(obj, e) == [d |-> obj, err |-> e, body |-> None]
      body_read(obj, h, r) ==
        IF r.err = "InsufficientData"
        THEN raise([obj EXCEPT !.pos = ClusterLen(obj.source)], r.err)
        ELSE IF r.err # "ok"
        THEN raise([obj EXCEPT !.pos = CLUSTER_META_SIZE + h.part_size,
                               !.decrypted = CLUSTER_META_SIZE + h.part_size], r.err)
        ELSE [d |-> [obj EXCEPT !.pos = CLUSTER_META_SIZE + h.part_size,
                                !.decrypted = CLUSTER_META_SIZE + h.part_size,
                                !.data_read = TRUE],
              err |-> "ok", body |-> Some(r.body)]
      with_header(hr) ==
        IF hr.err # "ok" THEN raise(hr.d, hr.err)
        ELSE IF hr.d.pos # CLUSTER_META_SIZE THEN raise(hr.d, "AssertionError")
        ELSE body_read(hr.d, Val(hr.h), read_data(d.fpk, d.source))
  IN IF d.data_read THEN raise(d, "RuntimeError")
     ELSE with_header(dio_header(d))

(***************************************************************************)
(* BlobsSequentialWriter and BlobsIndexedReader over the cluster stream.   *)
(* A stream is [start, clusters, tail]: the bytes before the first         *)
(* cluster, the bag of the chunks written, the length of the random tail.  *)
(***************************************************************************)
SALT_REGION_LEN == 32

RECURSIVE BagBytes(_)
BagBytes(b) ==
  IF DOMAIN b = {} THEN 0
  ELSE LET c == CHOOSE x \in DOMAIN b : TRUE
       IN b[c] * ClusterLen(c) + BagBytes([y \in DOMAIN b \ {c} |-> b[y]])

StreamSize(stream) == stream.start + BagBytes(stream.clusters) + stream.tail

BlobsSequentialWriter(target_io) ==
  [err |-> "ok", target_io |-> target_io, tail_written |-> FALSE]

\* write_bytes writing each buffer at the start position of the stream
write_bytes_overwrite(w, buffer) ==
  IF w.err # "ok" THEN w
  ELSE IF w.tail_written THEN [w EXCEPT !.err = "RuntimeError"]
  ELSE IF ClusterLen(buffer) # CLUSTER_SIZE THEN [w EXCEPT !.err = "ValueError"]
  ELSE [w EXCEPT !.target_io.clusters = SetToBag({buffer})]

write_bytes(w, buffer) ==
  IF w.err # "ok" THEN w
  ELSE IF w.tail_written THEN [w EXCEPT !.err = "RuntimeError"]
  ELSE IF ClusterLen(buffer) # CLUSTER_SIZE THEN [w EXCEPT !.err = "ValueError"]
  ELSE [w EXCEPT !.target_io.clusters = @ (+) SetToBag({buffer})]

\* write_tail writing one byte more than the draw
write_tail_one_more(w, n) ==
  IF w.err # "ok" THEN w
  ELSE IF w.tail_written THEN [w EXCEPT !.err = "RuntimeError"]
  ELSE IF ~(1 <= n /\ n < CLUSTER_SIZE) THEN [w EXCEPT !.err = "AssertionError"]
  ELSE [w EXCEPT !.target_io.tail = @ + n + 1, !.tail_written = TRUE]

\* write_tail without the assignment of _tail_written
write_tail_unflagged(w, n) ==
  IF w.err # "ok" THEN w
  ELSE IF w.tail_written THEN [w EXCEPT !.err = "RuntimeError"]
  ELSE IF ~(1 <= n /\ n < CLUSTER_SIZE) THEN [w EXCEPT !.err = "AssertionError"]
  ELSE [w EXCEPT !.target_io.tail = @ + n]

\* n is the random.randint(1, CLUSTER_SIZE - 1) draw
write_tail(w, n) ==
  IF w.err # "ok" THEN w
  ELSE IF w.tail_written THEN [w EXCEPT !.err = "RuntimeError"]
  ELSE IF ~(1 <= n /\ n < CLUSTER_SIZE) THEN [w EXCEPT !.err = "AssertionError"]
  ELSE [w EXCEPT !.target_io.tail = @ + n, !.tail_written = TRUE]

RECURSIVE write_all(_, _)
write_all(w, buffers) ==
  IF Len(buffers) = 0 THEN w
  ELSE write_all(write_bytes(w, Head(buffers)), Tail(buffers))

\* BlobsIndexedReader.__init__ on a stream positioned after the salt region
BlobsIndexedReader(source_io) ==
  LET io_size == StreamSize(source_io)
  IN [start_pos |-> source_io.start,
      io_size |-> io_size,
      len |-> (io_size - source_io.start) \div CLUSTER_SIZE,
      blobs |-> source_io.clusters]

tail_size(reader) == (reader.io_size - reader.start_pos) - reader.len * CLUSTER_SIZE

\* a window of `size` bytes of the stream, from the byte at `offset`
FragmentIO(offset, size) == [offset |-> offset, size |-> size]

\* BlobsIndexedReader.io counting the clusters from the start of the stream
blob_io_from_zero(reader, idx) ==
  IF idx < 0 THEN [err |-> "IndexError", io |-> None]
  ELSE IF idx >= reader.len THEN [err |-> "IndexError", io |-> None]
  ELSE [err |-> "ok", io |-> Some(FragmentIO(idx * CLUSTER_SIZE, CLUSTER_SIZE))]

\* BlobsIndexedReader.io(idx)
blob_io(reader, idx) ==
  IF idx < 0 THEN [err |-> "IndexError", io |-> None]
  ELSE IF idx >= reader.len THEN [err |-> "IndexError", io |-> None]
  ELSE [err |-> "ok",
        io |-> Some(FragmentIO(reader.start_pos + idx * CLUSTER_SIZE, CLUSTER_SIZE))]

\* BlobsIndexedReader.__iter__: the views it yields, in the order it yields them
blobs_iter(reader) == [i \in 1 .. reader.len |-> Val(blob_io(reader, i - 1).io)]

(***************************************************************************)
(* Name-group of one key: the clusters of the container it matches.        *)
(***************************************************************************)
\* the largest of a non-empty set of uint32 values
U32Max(S) == CHOOSE x \in S : \A y \in S : y = x \/ U32Less(y, x)

\* sub-bag of b on the elements D
BagOn(b, D) == [c \in D |-> b[c]]

\* locate: matching clusters, the real ones, the fresh set and its check
NameGroup(reader, cnk) ==
  LET failed(matching, e) ==
        [err |-> e, matching |-> matching, reals |-> EmptyBag, fakes |-> EmptyBag,
         max_version |-> U32(0, 0), fresh |-> EmptyBag,
         fresh_content_files |-> << >>]
      complete(hdr, fresh, n) ==
        /\ n > 0
        /\ {hdr[c].part_idx : c \in DOMAIN fresh} = 0 .. (n - 1)
        /\ \A c \in DOMAIN fresh : fresh[c] = 1
        /\ Cardinality({c \in DOMAIN fresh : hdr[c].is_last_part}) = 1
        /\ \A c \in DOMAIN fresh : hdr[c].is_last_part => hdr[c].part_idx = n - 1
      checked(matching, hdr, reals, fresh_version, fresh, n) ==
        [err |-> "ok", matching |-> matching, reals |-> reals,
         fakes |-> BagOn(matching, DOMAIN matching \ DOMAIN reals),
         max_version |-> fresh_version, fresh |-> fresh,
         fresh_content_files |->
           IF ~complete(hdr, fresh, n) THEN << >>
           ELSE [i \in 1 .. n |-> CHOOSE c \in DOMAIN fresh : hdr[c].part_idx = i - 1]]
      of_fresh(matching, hdr, reals, fresh_version, fresh) ==
        checked(matching, hdr, reals, fresh_version, fresh, BagCardinality(fresh))
      of_version(matching, hdr, reals, fresh_version) ==
        of_fresh(matching, hdr, reals, fresh_version,
                 BagOn(reals, {c \in DOMAIN reals :
                                 hdr[c].data_version = fresh_version}))
      of_reals(matching, hdr, reals) ==
        of_version(matching, hdr, reals,
                   IF DOMAIN reals = {} THEN U32(0, 0)
                   ELSE U32Max({hdr[c].data_version : c \in DOMAIN reals}))
      of_decoded(matching, decoded) ==
        IF \E c \in DOMAIN matching : decoded[c].err # "ok"
        THEN failed(matching,
                    decoded[CHOOSE c \in DOMAIN matching : decoded[c].err # "ok"].err)
        ELSE of_reals(matching, [c \in DOMAIN matching |-> Val(decoded[c].h)],
                      BagOn(matching,
                            {c \in DOMAIN matching : contains_data(cnk, c).v}))
      of_matching(matching) ==
        of_decoded(matching, [c \in DOMAIN matching |-> header(cnk, c)])
  IN of_matching(BagOn(reader.blobs,
                       {c \in DOMAIN reader.blobs : belongs_to_namegroup(cnk, c)}))

\* decrypt_from_dios: the bodies of the parts, in part_idx order
RECURSIVE decrypt_from_dios(_, _)
decrypt_from_dios(cnk, files) ==
  IF Len(files) = 0 THEN [err |-> "ok", data |-> << >>]
  ELSE LET first == read_data(cnk, Head(files))
           rest == decrypt_from_dios(cnk, Tail(files))
       IN IF first.err # "ok" THEN [err |-> first.err, data |-> << >>]
          ELSE IF rest.err # "ok" THEN rest
          ELSE [err |-> "ok", data |-> first.body \o rest.data]

\* CryptoDir.get without the return of None for a name-group with no fresh content
get_no_check(self_salt, name, container) ==
  LET pk == CodenameKey(name, self_salt)
      read(decrypted) ==
        IF decrypted.err # "ok" THEN [err |-> decrypted.err, v |-> None]
        ELSE [err |-> "ok", v |-> Some(decrypted.data)]
      with(nng) ==
        IF nng.err # "ok" THEN [err |-> nng.err, v |-> None]
        ELSE read(decrypt_from_dios(pk, nng.fresh_content_files))
  IN with(NameGroup(BlobsIndexedReader(container), pk))

\* CryptoDir.get reading the decrypted stream without the seek(0) before it
get_without_seek(self_salt, name, container) ==
  LET pk == CodenameKey(name, self_salt)
      read(decrypted) ==
        IF decrypted.err # "ok" THEN [err |-> decrypted.err, v |-> None]
        ELSE [err |-> "ok", v |-> Some(<< >>)]
      with(nng) ==
        IF nng.err # "ok" THEN [err |-> nng.err, v |-> None]
        ELSE IF Len(nng.fresh_content_files) = 0 THEN [err |-> "ok", v |-> None]
        ELSE read(decrypt_from_dios(pk, nng.fresh_content_files))
  IN with(NameGroup(BlobsIndexedReader(container), pk))

\* CryptoDir.get of an instance holding self_salt: [err, v], v None or Some(bytes)
get(self_salt, name, container) ==
  LET pk == CodenameKey(name, self_salt)
      read(decrypted) ==
        IF decrypted.err # "ok" THEN [err |-> decrypted.err, v |-> None]
        ELSE [err |-> "ok", v |-> Some(decrypted.data)]
      with(nng) ==
        IF nng.err # "ok" THEN [err |-> nng.err, v |-> None]
        ELSE IF Len(nng.fresh_content_files) = 0 THEN [err |-> "ok", v |-> None]
        ELSE read(decrypt_from_dios(pk, nng.fresh_content_files))
  IN with(NameGroup(BlobsIndexedReader(container), pk))

(***************************************************************************)
(* Update of one name-group: the whole container is rewritten.             *)
(***************************************************************************)
\* sizes of the parts of a value of n bytes; an empty value is one empty part
split_sizes(n) ==
  IF n = 0 THEN << 0 >>
  ELSE LET P == (n + MAX_CLUSTER_CONTENT_SIZE - 1) \div MAX_CLUSTER_CONTENT_SIZE
       IN [i \in 1 .. P |->
             IF i < P THEN MAX_CLUSTER_CONTENT_SIZE
             ELSE n - (P - 1) * MAX_CLUSTER_CONTENT_SIZE]

RECURSIVE BagToSeq(_)
BagToSeq(b) ==
  IF DOMAIN b = {} THEN << >>
  ELSE LET c == CHOOSE x \in DOMAIN b : TRUE
       IN [i \in 1 .. b[c] |-> c] \o BagToSeq([y \in DOMAIN b \ {c} |-> b[y]])

\* the real clusters of a value: part i is read from the source where part i-1 ended
RECURSIVE encode_parts(_, _, _, _, _, _)
encode_parts(cnk, data_version, source, sizes, nonces, i) ==
  LET raise(e) == [err |-> e, out |-> << >>]
      joined(one, rest) ==
        IF one.err # "ok" THEN raise(one.err)
        ELSE IF rest.err # "ok" THEN rest
        ELSE [err |-> "ok", out |-> one.out \o rest.out]
      encoded(enc) ==
        IF enc.err # "ok" THEN raise(enc.err)
        ELSE joined(io_to_io(enc.self, Some(source), nonces[i], 0),
                    encode_parts(cnk, data_version,
                                 SubSeq(source, sizes[i] + 1, Len(source)),
                                 sizes, nonces, i + 1))
  IN IF i > Len(sizes) THEN [err |-> "ok", out |-> << >>]
     ELSE encoded(Encrypt(cnk, data_version, CLUSTER_SIZE, i - 1, Len(sizes),
                          Some(sizes[i])))

\* the decoys of an update: draws is a sequence of [nonce, crc]
RECURSIVE encode_fakes(_, _)
encode_fakes(cnk, draws) ==
  LET raise(e) == [err |-> e, out |-> << >>]
      joined(one, rest) ==
        IF one.err # "ok" THEN raise(one.err)
        ELSE IF rest.err # "ok" THEN rest
        ELSE [err |-> "ok", out |-> one.out \o rest.out]
      encoded(enc) ==
        IF enc.err # "ok" THEN raise(enc.err)
        ELSE joined(io_to_io(enc.self, None, Head(draws).nonce, Head(draws).crc),
                    encode_fakes(cnk, Tail(draws)))
  IN IF Len(draws) = 0 THEN [err |-> "ok", out |-> << >>]
     ELSE encoded(Encrypt(cnk, U32(0, 0), CLUSTER_SIZE, 0, 1, None))

\* first half of an update: the name-group of the key in the old container,
\* and a writer that already holds the clusters of the other keys
begin_update(cnk, container) ==
  LET reader == BlobsIndexedReader(container)
      foreign == BagOn(reader.blobs,
                       {c \in DOMAIN reader.blobs : ~belongs_to_namegroup(cnk, c)})
      empty_io == [start |-> container.start, clusters |-> EmptyBag, tail |-> 0]
  IN [cnk |-> cnk, container |-> container,
      nng |-> NameGroup(reader, cnk),
      writer |-> write_all(BlobsSequentialWriter(empty_io), BagToSeq(foreign))]

\* second half: the new real clusters, the decoys and the tail;
\* [err, container]: on an error the container is the old one
finish_update(upd, content, nonces, fake_draws, tail_len) ==
  LET raise(e) == [err |-> e, container |-> upd.container]
      source == IF IsNone(content) THEN << >> ELSE Val(content)
      written(writer) ==
        IF writer.err # "ok" THEN raise(writer.err)
        ELSE [err |-> "ok", container |-> writer.target_io]
      encoded(reals, fakes) ==
        IF reals.err # "ok" THEN raise(reals.err)
        ELSE IF fakes.err # "ok" THEN raise(fakes.err)
        ELSE written(write_tail(write_all(upd.writer, reals.out \o fakes.out),
                                tail_len))
      versioned(new_version) ==
        IF ~U32Less(new_version, FAKE_CONTENT_VERSION) THEN raise("VersionExhausted")
        ELSE encoded(encode_parts(upd.cnk, new_version, source,
                                  IF IsNone(content) THEN << >>
                                  ELSE split_sizes(Len(source)),
                                  nonces, 1),
                     encode_fakes(upd.cnk, fake_draws))
  IN IF upd.nng.err # "ok" THEN raise(upd.nng.err)
     ELSE versioned(U32Succ(upd.nng.max_version))

\* update_namegroup: content is Some(bytes) for a set, None for a deletion;
\* nonces, fake_draws and tail_len are the random draws of the update
update_namegroup(content, cnk, container, nonces, fake_draws, tail_len) ==
  finish_update(begin_update(cnk, container), content, nonces, fake_draws, tail_len)

(***************************************************************************)
(* The container and one CryptoDir instance on it.                         *)
(***************************************************************************)
VARIABLES
  dir_salt,    \* the salt persisted with the container: None before creation
  container,   \* the cluster stream: [start, clusters, tail]
  self_salt,   \* CryptoDir.salt of the open instance: None before the first open
  stored,      \* per codename in use, what the completed updates left: history only
  lastOp,      \* the last completed update, [op, name]: history only
  dirty,       \* the temp file of the update in progress, None when there is none
  reader,      \* the open read handle of a get in progress, None when there is none
  dio,         \* one DecryptedIO object and the calls made on it, None when there is none
  cn,          \* one codename conversion, None when there is none
  writer,      \* one BlobsSequentialWriter and the calls made on it, None when there is none
  call         \* one call of a helper with its arguments and result, None when there is none

vars == << dir_salt, container, self_salt, stored, lastOp, dirty, reader, dio, cn, writer, call >>

Pattern(len, b) == [i \in 1 .. len |-> (b + i) % ByteMod]

\* the values set in the bounded runs: every length for one name, with two
\* values of the greatest length; one longest value for the others
Plaintexts(name) ==
  IF name = "alice"
  THEN {Pattern(len, 0) : len \in 0 .. MaxLen} \cup {Pattern(MaxLen, 1)}
  ELSE {Pattern(MaxLen, 2)}

\* one byte more than MAX_PART_IDX + 1 full parts hold
TooLong == Pattern((MAX_PART_IDX + 1) * MAX_CLUSTER_CONTENT_SIZE + 1, 0)

TailSizes == {1, CLUSTER_SIZE - 1}

FakeDraws(counts) ==
  UNION {[1 .. n -> [nonce : Nonces, crc : RandomCrcs]] : n \in counts}

Never == << "never" >>
\* had: the name held a value when it was deleted
Deleted(had) == << "deleted", had >>
Value(p) == << "value", p >>

Op(op, name) == [op |-> op, name |-> name]

Init ==
  /\ dir_salt = None
  /\ container = [start |-> 0, clusters |-> EmptyBag, tail |-> 0]
  /\ self_salt = None
  /\ stored = [c \in Codenames |-> Never]
  /\ lastOp = Op("none", "")
  /\ dirty = None
  /\ reader = None
  /\ dio = None
  /\ cn = None
  /\ writer = None
  /\ call = None

\* write_salt_and_fakes: a new salt, then random clusters and the tail
write_salt_and_fakes(salt, draws, tail_len) ==
  LET empty_io == [start |-> SALT_REGION_LEN, clusters |-> EmptyBag, tail |-> 0]
      fakes == encode_fakes(RandomKey, draws)
  IN write_tail(write_all(BlobsSequentialWriter(empty_io), fakes.out), tail_len)

\* CryptoDir.__init__ writing a salt whether or not one was found
salt_is_missing_always(found) == TRUE

\* CryptoDir.__init__: `if salt is None`
salt_is_missing(found) == IsNone(found)

\* CryptoDir.__init__ with the new salt drawn from salts
OpenWith(salts) ==
  \/ /\ salt_is_missing(dir_salt)
     /\ \E salt \in salts, tail_len \in TailSizes, draws \in FakeDraws(InitialCounts) :
          \E w \in {write_salt_and_fakes(salt, draws, tail_len)} :
             /\ w.err = "ok"
             /\ dir_salt' = Some(salt)
             /\ container' = w.target_io
             /\ self_salt' = Some(salt)
     /\ lastOp' = Op("open", "")
     /\ UNCHANGED << stored, dirty, reader, dio, cn, writer, call >>
  \/ /\ ~salt_is_missing(dir_salt)
     /\ self_salt' = dir_salt
     /\ UNCHANGED << dir_salt, container, stored, lastOp, dirty, reader, dio, cn, writer, call >>

\* CryptoDir.__init__
Open == OpenWith(Salts)

\* CryptoDir.set_from_io with a value of the bounded inputs
SetFromIo ==
  /\ ~IsNone(self_salt)
  /\ \E name \in DOMAIN stored :
     \E upd \in {begin_update(CodenameKey(name, Val(self_salt)), container)} :
       /\ \/ U32Less(upd.nng.max_version, U32(0, MaxVersion))
          \/ ~U32Less(upd.nng.max_version, NearLimit)
       /\ \E p \in Plaintexts(name), tail_len \in TailSizes,
             fakes \in FakeDraws(0 .. MaxFakes) :
          \E nonces \in [1 .. Len(split_sizes(Len(p))) -> Nonces] :
          \E r \in {finish_update(upd, Some(p), nonces, fakes, tail_len)} :
             /\ container' = r.container
             /\ stored' = IF r.err = "ok" THEN [stored EXCEPT ![name] = Value(p)]
                          ELSE stored
             /\ lastOp' = IF r.err = "ok" THEN Op("set", name) ELSE lastOp
  /\ UNCHANGED << dir_salt, self_salt, dirty, reader, dio, cn, writer, call >>

\* CryptoDir.set_from_io with a value of more parts than Encrypt accepts:
\* the first Encrypt is refused before anything is drawn or written
SetTooLong ==
  /\ ~IsNone(self_salt)
  /\ \E name \in DOMAIN stored :
     \E r \in {update_namegroup(Some(TooLong), CodenameKey(name, Val(self_salt)),
                                container, << >>, << >>, 1)} :
        /\ container' = r.container
        /\ stored' = IF r.err = "ok" THEN [stored EXCEPT ![name] = Value(TooLong)]
                     ELSE stored
        /\ lastOp' = IF r.err = "ok" THEN Op("set", name) ELSE lastOp
  /\ UNCHANGED << dir_salt, self_salt, dirty, reader, dio, cn, writer, call >>

\* delete(name)
Delete ==
  /\ ~IsNone(self_salt)
  /\ \E name \in DOMAIN stored :
     \E upd \in {begin_update(CodenameKey(name, Val(self_salt)), container)} :
     \E tail_len \in TailSizes, fakes \in FakeDraws(0 .. MaxFakes) :
     \E r \in {finish_update(upd, None, << >>, fakes, tail_len)} :
        /\ container' = r.container
        /\ stored' = IF r.err = "ok" THEN [stored EXCEPT ![name] = Deleted(stored[name][1] = "value")]
                     ELSE stored
        /\ lastOp' = IF r.err = "ok" THEN Op("delete", name) ELSE lastOp
  /\ UNCHANGED << dir_salt, self_salt, dirty, reader, dio, cn, writer, call >>

\* CryptoDir.get: reads only
Get ==
  /\ ~IsNone(self_salt)
  /\ \E name \in DOMAIN stored :
       get(Val(self_salt), name, container).err \in
         {"ok", "ChecksumMismatch", "InsufficientData"}
  /\ UNCHANGED vars

Next == Open \/ SetFromIo \/ SetTooLong \/ Delete \/ Get

Spec == Init /\ [][Next]_vars

(***************************************************************************)
(* The same directory with one codename in use, and a container that is    *)
(* damaged from outside after a set: a cluster of the fresh set is lost or *)
(* copied, or a cluster of an update that was not completed is left in it. *)
(***************************************************************************)
Damaged == << "damaged" >>

InitDamaged ==
  /\ dir_salt = None
  /\ container = [start |-> 0, clusters |-> EmptyBag, tail |-> 0]
  /\ self_salt = None
  /\ stored = [c \in {"alice"} |-> Never]
  /\ lastOp = Op("none", "")
  /\ dirty = None
  /\ reader = None
  /\ dio = None
  /\ cn = None
  /\ writer = None
  /\ call = None

\* the container after the damage d of the group of lastOp.name
DamageTo(clusters) ==
  /\ container' = [container EXCEPT !.clusters = clusters]
  /\ stored' = [stored EXCEPT ![lastOp.name] = Damaged]
  /\ lastOp' = Op("damage", lastOp.name)
  /\ UNCHANGED << dir_salt, self_salt, dirty, reader, dio, cn, writer, call >>

FreshOf(name) ==
  NameGroup(BlobsIndexedReader(container), CodenameKey(name, Val(self_salt))).fresh

\* one cluster of the fresh set is lost
Lose ==
  /\ lastOp.op = "set"
  /\ \E x \in DOMAIN FreshOf(lastOp.name) :
       DamageTo(container.clusters (-) SetToBag({x}))

\* one cluster of the fresh set is in the container twice
Duplicate ==
  /\ lastOp.op = "set"
  /\ \E x \in DOMAIN FreshOf(lastOp.name) :
       DamageTo(container.clusters (+) SetToBag({x}))

\* a cluster of an update that was not completed: an empty part of the
\* version of the fresh set or of the next one, of any index, last or not
Inject ==
  /\ lastOp.op = "set"
  /\ \E part_idx \in 0 .. MaxLen, last \in BOOLEAN, next \in BOOLEAN :
     \E nng \in {NameGroup(BlobsIndexedReader(container),
                           CodenameKey(lastOp.name, Val(self_salt)))} :
     \E data_version \in {IF next THEN U32Succ(nng.max_version) ELSE nng.max_version} :
     \E enc \in {Encrypt(CodenameKey(lastOp.name, Val(self_salt)), data_version,
                         CLUSTER_SIZE, part_idx,
                         IF last THEN part_idx + 1 ELSE part_idx + 2, Some(0))} :
     \E one \in {io_to_io(enc.self, Some(<< >>), "n1", 0)} :
        /\ ~U32Less(U32(0, MaxVersion), data_version)
        /\ enc.err = "ok" /\ one.err = "ok"
        /\ DamageTo(container.clusters (+) SetToBag({one.out[1]}))

NextDamaged == Open \/ SetFromIo \/ Delete \/ Get \/ Lose \/ Duplicate \/ Inject

SpecDamaged == InitDamaged /\ [][NextDamaged]_vars

(***************************************************************************)
(* The same directory opened on a container whose one codename was written *)
(* so often that its version is three below FAKE_CONTENT_VERSION.          *)
(***************************************************************************)
\* the container after the set number NearLimit of alice, of value p
WornContainer(salt, p, fake_draws, tail_len) ==
  LET empty_io == [start |-> SALT_REGION_LEN, clusters |-> EmptyBag, tail |-> 0]
      reals == encode_parts(CodenameKey("alice", salt), NearLimit, p,
                            split_sizes(Len(p)),
                            [i \in 1 .. Len(split_sizes(Len(p))) |-> "n1"], 1)
      fakes == encode_fakes(CodenameKey("alice", salt), fake_draws)
  IN write_tail(write_all(BlobsSequentialWriter(empty_io), reals.out \o fakes.out),
                tail_len).target_io

InitWorn ==
  /\ dir_salt = Some("s1")
  /\ self_salt = Some("s1")
  /\ \E p \in Plaintexts("alice"), tail_len \in TailSizes,
        fakes \in FakeDraws(0 .. MaxFakes) :
       /\ container = WornContainer("s1", p, fakes, tail_len)
       /\ stored = [c \in {"alice"} |-> Value(p)]
  /\ lastOp = Op("none", "")
  /\ dirty = None
  /\ reader = None
  /\ dio = None
  /\ cn = None
  /\ writer = None
  /\ call = None

NextWorn == SetFromIo \/ Delete \/ Get

SpecWorn == InitWorn /\ [][NextWorn]_vars

(***************************************************************************)
(* The same directory with one codename in use and two salts to draw from. *)
(***************************************************************************)
TwoSalts == {"s1", "s2"}

OpenTwoSalts == OpenWith(TwoSalts)

NextSalts == OpenTwoSalts \/ SetFromIo \/ Delete \/ Get

SpecSalts == InitDamaged /\ [][NextSalts]_vars

(***************************************************************************)
(* The update step by step: one writer rewrites the container through a    *)
(* temp file while one get holds a read handle.  A handle stays on the     *)
(* file it opened: after a replace it reads the file that was replaced.    *)
(***************************************************************************)
\* with WritingToTempFile(target) as wtf, with the clusters written in the target
WritingToTempFile_in_place(target_file) ==
  [target |-> target_file, dirty |-> target_file]

\* with WritingToTempFile(target) as wtf: wtf.dirty is a file beside the target
WritingToTempFile(target_file) == [target |-> target_file, dirty |-> "temp"]

\* wtf.replace() called as soon as the dirty file is open
may_replace_early(d) == TRUE

\* wtf.replace() comes after the dirty file is written and closed
may_replace(d) == d.err = "ok" /\ Len(d.todo) = 0 /\ d.w.tail_written

\* the cluster list of an update: the clusters of the other keys carried
\* over, the new real clusters, the decoys
update_buffers(cnk, container_io, content, nonces, fake_draws) ==
  LET raise(e) == [err |-> e, out |-> << >>]
      reader_io == BlobsIndexedReader(container_io)
      source == IF IsNone(content) THEN << >> ELSE Val(content)
      foreign == BagOn(reader_io.blobs,
                       {c \in DOMAIN reader_io.blobs : ~belongs_to_namegroup(cnk, c)})
      encoded(reals, fakes) ==
        IF reals.err # "ok" THEN raise(reals.err)
        ELSE IF fakes.err # "ok" THEN raise(fakes.err)
        ELSE [err |-> "ok", out |-> BagToSeq(foreign) \o reals.out \o fakes.out]
      versioned(new_version) ==
        IF ~U32Less(new_version, FAKE_CONTENT_VERSION) THEN raise("VersionExhausted")
        ELSE encoded(encode_parts(cnk, new_version, source,
                                  IF IsNone(content) THEN << >>
                                  ELSE split_sizes(Len(source)),
                                  nonces, 1),
                     encode_fakes(cnk, fake_draws))
      with(nng) == IF nng.err # "ok" THEN raise(nng.err)
                   ELSE versioned(U32Succ(nng.max_version))
  IN with(NameGroup(reader_io, cnk))

\* what the stepwise updates write: two values of the greatest length and a
\* value of too many parts for one name, one value for the others
StepContents(name) ==
  IF name = "alice"
  THEN {Some(Pattern(MaxLen, 0)), Some(Pattern(MaxLen, 1)), Some(TooLong)}
  ELSE {Some(Pattern(MaxLen, 2))}

NoncesFor(content) ==
  IF IsNone(content) THEN << >>
  ELSE [i \in 1 .. Len(split_sizes(Len(Val(content)))) |-> "n1"]

InitSteps ==
  /\ dir_salt = Some("s1")
  /\ self_salt = Some("s1")
  /\ container = write_salt_and_fakes("s1", << >>, 1).target_io
  /\ stored = [c \in Codenames |-> Never]
  /\ lastOp = Op("none", "")
  /\ dirty = None
  /\ reader = None
  /\ dio = None
  /\ cn = None
  /\ writer = None
  /\ call = None

\* the file at the container path after the writer state w reached the dirty file
Target(d, w) == IF d.wtf.dirty = d.wtf.target THEN w.target_io ELSE container

\* the update opens its dirty file and builds its cluster list
UpdateBegin ==
  /\ ~IsNone(self_salt)
  /\ IsNone(dirty)
  /\ \E name \in DOMAIN stored :
     \E content \in StepContents(name) :
     \E plan \in {update_buffers(CodenameKey(name, Val(self_salt)), container, content,
                                 NoncesFor(content),
                                 << [nonce |-> "n1", crc |-> 7] >>)} :
     \E d \in {[name |-> name, content |-> content,
                wtf |-> WritingToTempFile("target"), orig |-> container,
                err |-> plan.err, todo |-> plan.out,
                w |-> BlobsSequentialWriter([start |-> container.start,
                                             clusters |-> EmptyBag, tail |-> 0])]} :
        /\ U32Less(NameGroup(BlobsIndexedReader(container),
                             CodenameKey(name, Val(self_salt))).max_version,
                   U32(0, MaxVersion))
        /\ dirty' = Some(d)
        /\ container' = Target(d, d.w)
  /\ UNCHANGED << dir_salt, self_salt, stored, lastOp, reader, dio, cn, writer, call >>

\* the next cluster of the list goes to the dirty file
UpdateWrite ==
  /\ ~IsNone(dirty)
  /\ Val(dirty).err = "ok"
  /\ Len(Val(dirty).todo) > 0
  /\ \E w \in {write_bytes(Val(dirty).w, Head(Val(dirty).todo))} :
       /\ dirty' = Some([Val(dirty) EXCEPT !.w = w, !.err = w.err, !.todo = Tail(@)])
       /\ container' = Target(Val(dirty), w)
  /\ UNCHANGED << dir_salt, self_salt, stored, lastOp, reader, dio, cn, writer, call >>

\* the tail goes to the dirty file after the last cluster
UpdateTail ==
  /\ ~IsNone(dirty)
  /\ Val(dirty).err = "ok"
  /\ Len(Val(dirty).todo) = 0
  /\ ~Val(dirty).w.tail_written
  /\ \E w \in {write_tail(Val(dirty).w, 1)} :
       /\ dirty' = Some([Val(dirty) EXCEPT !.w = w, !.err = w.err])
       /\ container' = Target(Val(dirty), w)
  /\ UNCHANGED << dir_salt, self_salt, stored, lastOp, reader, dio, cn, writer, call >>

\* the atomic replace: the dirty file becomes the container; an open read
\* handle keeps the file that was replaced
UpdateReplace ==
  /\ ~IsNone(dirty)
  /\ may_replace(Val(dirty))
  /\ container' = Val(dirty).w.target_io
  /\ dirty' = None
  /\ stored' = [stored EXCEPT ![Val(dirty).name] =
                  IF IsNone(Val(dirty).content) THEN Deleted(stored[Val(dirty).name][1] = "value")
                  ELSE Value(Val(Val(dirty).content))]
  /\ lastOp' = Op(IF IsNone(Val(dirty).content) THEN "delete" ELSE "set",
                  Val(dirty).name)
  /\ reader' = IF ~IsNone(reader) /\ IsNone(Val(reader).file)
               THEN Some([Val(reader) EXCEPT !.file = Some(container)])
               ELSE reader
  /\ UNCHANGED << dir_salt, self_salt, dio, cn, writer, call >>

\* the update fails or is given up before the replace: the dirty file is removed
UpdateAbort ==
  /\ ~IsNone(dirty)
  /\ dirty' = None
  /\ lastOp' = [op |-> "abort", name |-> Val(dirty).name,
                written |-> BagCardinality(Val(dirty).w.target_io.clusters),
                err |-> Val(dirty).err]
  /\ UNCHANGED << dir_salt, self_salt, container, stored, reader, dio, cn, writer, call >>

\* a get opens the container read-only
ReadOpen ==
  /\ ~IsNone(self_salt)
  /\ IsNone(reader)
  /\ \E name \in DOMAIN stored :
       reader' = Some([name |-> name, at_open |-> stored[name], file |-> None])
  /\ UNCHANGED << dir_salt, self_salt, container, stored, lastOp, dirty, dio, cn, writer, call >>

\* the file the open handle reads
ReaderFile ==
  IF IsNone(Val(reader).file) THEN container ELSE Val(Val(reader).file)

\* the get returns and closes its handle
ReadClose ==
  /\ ~IsNone(reader)
  /\ get(Val(self_salt), Val(reader).name, ReaderFile).err \in
       {"ok", "ChecksumMismatch", "InsufficientData"}
  /\ reader' = None
  /\ UNCHANGED << dir_salt, self_salt, container, stored, lastOp, dirty, dio, cn, writer, call >>

NextSteps ==
  \/ UpdateBegin \/ UpdateWrite \/ UpdateTail \/ UpdateReplace \/ UpdateAbort
  \/ ReadOpen \/ ReadClose

SpecSteps == InitSteps /\ [][NextSteps]_vars

(***************************************************************************)
(* One DecryptedIO object on one cluster, as written or with one bit of    *)
(* its encrypted header, header checksum or body flipped, and the calls    *)
(* made on it.  The cipher is a stream cipher: a flipped bit of the        *)
(* ciphertext is the same flipped bit of the decrypted bytes.              *)
(***************************************************************************)
Pow2(b) == 2 ^ b

FlipBit(x, b) == IF (x \div Pow2(b)) % 2 = 1 THEN x - Pow2(b) ELSE x + Pow2(b)

FlipU32(v, b) ==
  IF b < 16 THEN U32(v[1], FlipBit(v[2], b)) ELSE U32(FlipBit(v[1], b - 16), v[2])

\* bits of the header fields: CRC, part_idx, size and flag, version; the CRC
\* is kept as an integer and its highest bit is left out
FieldBits(field) ==
  CASE field = 1 -> 31 [] field = 2 -> 16 [] field = 3 -> 16 [] field = 4 -> 32

NotTampered == [kind |-> "none", at |-> 0, bit |-> 0]

Tampers(c) ==
  {NotTampered}
    \cup {[kind |-> "hdr", at |-> f, bit |-> b] :
            f \in {1}, b \in 0 .. (FieldBits(1) - 1)}
    \cup {[kind |-> "hdr", at |-> f, bit |-> b] :
            f \in {2, 3}, b \in 0 .. (FieldBits(2) - 1)}
    \cup {[kind |-> "hdr", at |-> f, bit |-> b] :
            f \in {4}, b \in 0 .. (FieldBits(4) - 1)}
    \cup {[kind |-> "mac", at |-> 0, bit |-> b] : b \in 0 .. (8 * MAC_LEN - 1)}
    \cup {[kind |-> "body", at |-> i, bit |-> b] :
            i \in 1 .. Len(c.body.pt), b \in 0 .. 7}

\* the cluster c with the bit t flipped
Tamper(c, t) ==
  CASE t.kind = "none" -> c
    [] t.kind = "hdr" ->
         [c EXCEPT !.hdr.pt[t.at] = IF t.at = 4 THEN FlipU32(@, t.bit)
                                    ELSE FlipBit(@, t.bit)]
    [] t.kind = "mac" -> [c EXCEPT !.mac.pt = << "blake2s", @[2], t.bit >>]
    [] t.kind = "body" -> [c EXCEPT !.body.pt[t.at] = FlipBit(@, t.bit)]

\* one-part clusters of every body length, and a decoy, of one key
SampleClusters(cnk) ==
  {io_to_io(Encrypt(cnk, U32(0, 1), CLUSTER_SIZE, 0, 1, Some(n)).self,
            Some(Pattern(n, 1)), "n1", 0).out[1] : n \in 0 .. MAX_CLUSTER_CONTENT_SIZE}
    \cup {io_to_io(Encrypt(cnk, U32(0, 0), CLUSTER_SIZE, 0, 1, None).self,
                   None, "n1", 7).out[1]}

InitDecoder ==
  /\ dir_salt = Some("s1")
  /\ self_salt = Some("s1")
  /\ container = [start |-> SALT_REGION_LEN, clusters |-> EmptyBag, tail |-> 0]
  /\ stored = [c \in Codenames |-> Never]
  /\ lastOp = Op("none", "")
  /\ dirty = None
  /\ reader = None
  /\ dio = None
  /\ cn = None
  /\ writer = None
  /\ call = None

\* DecryptedIO(fpk, source) on a cluster of alice, under the key of any name
NewDecoder ==
  /\ IsNone(dio)
  /\ \E name \in Codenames :
     \E c \in SampleClusters(CodenameKey("alice", "s1")) :
     \E t \in Tampers(c) :
        dio' = Some([obj |-> DecryptedIO(CodenameKey(name, "s1"), Tamper(c, t)),
                     orig |-> c, tamper |-> t, log |-> << >>])
  /\ UNCHANGED << dir_salt, container, self_salt, stored, lastOp, dirty, reader, cn, writer, call >>

\* dio.header
CallHeader ==
  /\ ~IsNone(dio)
  /\ Len(Val(dio).log) < MaxCalls
  /\ \E r \in {dio_header(Val(dio).obj)} :
       dio' = Some([Val(dio) EXCEPT
                      !.obj = r.d,
                      !.log = Append(@, [op |-> "header", err |-> r.err, out |-> r.h])])
  /\ UNCHANGED << dir_salt, container, self_salt, stored, lastOp, dirty, reader, cn, writer, call >>

\* dio.read_data()
CallReadData ==
  /\ ~IsNone(dio)
  /\ Len(Val(dio).log) < MaxCalls
  /\ \E r \in {dio_read_data(Val(dio).obj)} :
       dio' = Some([Val(dio) EXCEPT
                      !.obj = r.d,
                      !.log = Append(@, [op |-> "read_data", err |-> r.err,
                                         out |-> r.body])])
  /\ UNCHANGED << dir_salt, container, self_salt, stored, lastOp, dirty, reader, cn, writer, call >>

NextDecoder == NewDecoder \/ CallHeader \/ CallReadData

SpecDecoder == InitDecoder /\ [][NextDecoder]_vars

(***************************************************************************)
(* One DecryptedIO object asked whether its source belongs to the key and  *)
(* holds data.  The source is a cluster of the container or a source that  *)
(* ends before its imprint does.                                           *)
(***************************************************************************)
ShortSizes == {0, 1, FULL_LEN - 1}

\* DecryptedIO(fpk, source) on a short source or a cluster of the container
OpenSource ==
  /\ IsNone(dio)
  /\ \E name \in Codenames :
     \E src \in {ShortSource(n) : n \in ShortSizes} \cup DOMAIN container.clusters :
        dio' = Some([obj |-> DecryptedIO(CodenameKey(name, Val(self_salt)), src),
                     orig |-> src, tamper |-> NotTampered, log |-> << >>])
  /\ UNCHANGED << dir_salt, container, self_salt, stored, lastOp, dirty, reader, cn, writer, call >>

\* dio.belongs_to_namegroup
CallBelongs ==
  /\ ~IsNone(dio)
  /\ Len(Val(dio).log) < MaxCalls
  /\ \E r \in {dio_belongs_to_namegroup(Val(dio).obj)} :
       dio' = Some([Val(dio) EXCEPT
                      !.obj = r.d,
                      !.log = Append(@, [op |-> "belongs_to_namegroup", err |-> r.err,
                                         out |-> IF r.err = "ok" THEN Some(r.v)
                                                 ELSE None])])
  /\ UNCHANGED << dir_salt, container, self_salt, stored, lastOp, dirty, reader, cn, writer, call >>

\* dio.contains_data
CallContains ==
  /\ ~IsNone(dio)
  /\ Len(Val(dio).log) < MaxCalls
  /\ \E r \in {dio_contains_data(Val(dio).obj)} :
       dio' = Some([Val(dio) EXCEPT
                      !.obj = r.d,
                      !.log = Append(@, [op |-> "contains_data", err |-> r.err,
                                         out |-> IF r.err = "ok" THEN Some(r.v)
                                                 ELSE None])])
  /\ UNCHANGED << dir_salt, container, self_salt, stored, lastOp, dirty, reader, cn, writer, call >>

NextScan == OpenSource \/ CallBelongs \/ CallContains

SpecScan == InitWorn /\ [][NextScan]_vars

(***************************************************************************)
(* One Encrypt object made from any arguments, the cluster it writes from  *)
(* a source or as a decoy, and a DecryptedIO opened on that cluster.       *)
(***************************************************************************)
PartIdxs == {-1, 0, 1, MAX_PART_IDX, MAX_PART_IDX + 1}

PartsLens == {0, 1, 2, MAX_PART_IDX + 1, MAX_PART_IDX + 2}

PartSizes == {None} \cup {Some(n) : n \in (-1) .. (MAX_CLUSTER_CONTENT_SIZE + 1)}

DataVersions == {U32(0, 0), U32(0, 1), U32(1, 0), FAKE_CONTENT_VERSION}

\* the sources handed to io_to_io: None for a decoy, or a stream of bytes
Sources == {None} \cup {Some(Pattern(n, b)) : n \in 0 .. MaxLen, b \in {0, 1}}

\* Encrypt(cnk, data_version, CLUSTER_SIZE, part_idx, parts_len, part_size)
NewEncrypt ==
  /\ lastOp.op = "none"
  /\ \E data_version \in DataVersions, part_idx \in PartIdxs,
        parts_len \in PartsLens, part_size \in PartSizes :
        lastOp' = [op |-> "Encrypt", name |-> "alice",
                   args |-> [data_version |-> data_version, part_idx |-> part_idx,
                             parts_len |-> parts_len, part_size |-> part_size],
                   enc |-> Encrypt(CodenameKey("alice", Val(self_salt)), data_version,
                                   CLUSTER_SIZE, part_idx, parts_len, part_size),
                   source |-> None, io_err |-> "none", out |-> << >>]
  /\ UNCHANGED << dir_salt, container, self_salt, stored, dirty, reader, dio, cn, writer, call >>

\* enc.io_to_io(source, outfile) on the object made, and a DecryptedIO on
\* the cluster written, under the key of any name
IoToIo ==
  /\ lastOp.op = "Encrypt"
  /\ lastOp.enc.err = "ok"
  /\ \E source \in Sources, name \in Codenames :
     \E r \in {io_to_io(lastOp.enc.self, source, "n1", 7)} :
        /\ lastOp' = [lastOp EXCEPT !.op = "io_to_io", !.source = source,
                                    !.io_err = r.err, !.out = r.out]
        /\ dio' = IF r.err # "ok" THEN None
                  ELSE Some([obj |-> DecryptedIO(CodenameKey(name, Val(self_salt)),
                                                 r.out[1]),
                             orig |-> r.out[1], tamper |-> NotTampered, log |-> << >>])
  /\ UNCHANGED << dir_salt, container, self_salt, stored, dirty, reader, cn, writer, call >>

NextCodec == NewEncrypt \/ IoToIo \/ CallHeader \/ CallReadData

SpecCodec == InitDecoder /\ [][NextCodec]_vars

(***************************************************************************)
(* One BlobsSequentialWriter on an empty stream and the calls made on it.  *)
(* A call that raises leaves the object as it was; the log keeps, for each *)
(* call, its error and the size of the stream before and after it.         *)
(***************************************************************************)
\* buffers of CLUSTER_SIZE bytes, of one byte less and of one byte more
WriterBuffers ==
  {io_to_io(Encrypt(RandomKey, U32(0, 0), size, 0, 1, None).self, None, "n1", 7).out[1] :
     size \in {CLUSTER_SIZE - 1, CLUSTER_SIZE, CLUSTER_SIZE + 1}}

\* the object after a call, and the entry of the call in the log
AfterCall(op, len, r) ==
  Some([w |-> [r EXCEPT !.err = "ok"],
        log |-> Append(Val(writer).log,
                       [op |-> op, len |-> len, err |-> r.err,
                        before |-> StreamSize(Val(writer).w.target_io),
                        after |-> StreamSize(r.target_io)])])

\* BlobsSequentialWriter(target_io)
NewWriter ==
  /\ IsNone(writer)
  /\ writer' = Some([w |-> BlobsSequentialWriter([start |-> 0, clusters |-> EmptyBag,
                                                  tail |-> 0]),
                     log |-> << >>])
  /\ UNCHANGED << dir_salt, container, self_salt, stored, lastOp, dirty, reader, dio, cn, call >>

\* writer.write_bytes(buffer)
WriteBytes ==
  /\ ~IsNone(writer)
  /\ Len(Val(writer).log) < MaxCalls
  /\ \E buffer \in WriterBuffers :
        writer' = AfterCall("write_bytes", ClusterLen(buffer),
                            write_bytes(Val(writer).w, buffer))
  /\ UNCHANGED << dir_salt, container, self_salt, stored, lastOp, dirty, reader, dio, cn, call >>

\* writer.write_tail()
WriteTail ==
  /\ ~IsNone(writer)
  /\ Len(Val(writer).log) < MaxCalls
  /\ \E n \in TailSizes :
        writer' = AfterCall("write_tail", n, write_tail(Val(writer).w, n))
  /\ UNCHANGED << dir_salt, container, self_salt, stored, lastOp, dirty, reader, dio, cn, call >>

NextWriter == NewWriter \/ WriteBytes \/ WriteTail

SpecWriter == InitDecoder /\ [][NextWriter]_vars

(***************************************************************************)
(* One BlobsIndexedReader opened on a stream, at the start of the stream   *)
(* or after a salt region, and the views asked of it.                      *)
(***************************************************************************)
\* most clusters the streams read hold
MaxClusters == 2

\* bytes after the last whole cluster written: none, a tail as write_tail
\* writes it, or more than a cluster
ExtraSizes == {0, 1, CLUSTER_SIZE - 1, CLUSTER_SIZE, CLUSTER_SIZE + 1}

\* a stream of k buffers of CLUSTER_SIZE bytes and extra bytes after them
ReadStream(start, k, extra) ==
  [start |-> start,
   clusters |-> [b \in {x \in WriterBuffers : ClusterLen(x) = CLUSTER_SIZE /\ k > 0} |-> k],
   tail |-> extra]

\* BlobsIndexedReader(source_io) with source_io at position start
OpenReader ==
  /\ IsNone(call)
  /\ \E start \in {0, SALT_REGION_LEN}, k \in 0 .. MaxClusters, extra \in ExtraSizes :
        call' = Some([fn |-> "BlobsIndexedReader",
                      stream |-> ReadStream(start, k, extra),
                      reader |-> BlobsIndexedReader(ReadStream(start, k, extra)),
                      asked |-> None, got |-> None, views |-> None])
  /\ UNCHANGED << dir_salt, container, self_salt, stored, lastOp, dirty, reader, dio, cn, writer >>

\* reader.io(idx)
ReaderIo ==
  /\ ~IsNone(call)
  /\ Val(call).fn = "BlobsIndexedReader"
  /\ IsNone(Val(call).asked)
  /\ \E idx \in (-1) .. (Val(call).reader.len + 1) :
        call' = Some([Val(call) EXCEPT !.asked = Some(idx),
                                       !.got = Some(blob_io(Val(call).reader, idx))])
  /\ UNCHANGED << dir_salt, container, self_salt, stored, lastOp, dirty, reader, dio, cn, writer >>

\* list(reader)
ReaderIter ==
  /\ ~IsNone(call)
  /\ Val(call).fn = "BlobsIndexedReader"
  /\ IsNone(Val(call).views)
  /\ call' = Some([Val(call) EXCEPT !.views = Some(blobs_iter(Val(call).reader))])
  /\ UNCHANGED << dir_salt, container, self_salt, stored, lastOp, dirty, reader, dio, cn, writer >>

NextReader == OpenReader \/ ReaderIo \/ ReaderIter

SpecReader == InitDecoder /\ [][NextReader]_vars

(***************************************************************************)
(* Encrypt under other cluster sizes than the scaled one: the size of the  *)
(* build, then one Encrypt object with a part_size and the flag word that  *)
(* io_to_io makes of it.                                                   *)
(***************************************************************************)
\* the cluster size the constants section names as the default
DEFAULT_CLUSTER_SIZE == 128 * 1024

\* the greatest cluster size whose content size fits into 15 bits
LARGEST_CLUSTER_SIZE == 32767 + CLUSTER_META_SIZE

ClusterSizes ==
  {CLUSTER_META_SIZE, CLUSTER_META_SIZE + 1, CLUSTER_SIZE, 4096, 8192, 32767,
   LARGEST_CLUSTER_SIZE - 1, LARGEST_CLUSTER_SIZE, LARGEST_CLUSTER_SIZE + 1,
   65535, 65535 + CLUSTER_META_SIZE, DEFAULT_CLUSTER_SIZE}

\* part sizes at both ends of the range a cluster size allows
EndSizes(max_content) ==
  {n \in {0, 1, 2, max_content - 2, max_content - 1, max_content} :
     0 <= n /\ n <= max_content}

\* the build: CLUSTER_SIZE of codn._common set to cluster_size
ConfigureSize ==
  /\ IsNone(call)
  /\ \E cluster_size \in ClusterSizes :
        call' = Some([fn |-> "CLUSTER_SIZE", cluster_size |-> cluster_size,
                      max_content |-> cluster_size - CLUSTER_META_SIZE])
  /\ UNCHANGED << dir_salt, container, self_salt, stored, lastOp, dirty, reader, dio, cn, writer >>

\* Encrypt(cnk, 1, cluster_size, 0, parts_len, part_size), then the flag word
\* of io_to_io
EncryptSized ==
  /\ ~IsNone(call)
  /\ Val(call).fn = "CLUSTER_SIZE"
  /\ \E part_size \in EndSizes(Val(call).max_content), parts_len \in {1, 2} :
     \E enc \in {EncryptWith(Val(call).max_content, CodenameKey("alice", "s1"), U32(0, 1),
                              Val(call).cluster_size, 0, parts_len, Some(part_size))} :
        call' = Some([fn |-> "Encrypt", cluster_size |-> Val(call).cluster_size,
                      max_content |-> Val(call).max_content,
                      part_size |-> part_size, is_last_part |-> (parts_len = 1),
                      err |-> enc.err,
                      low15 |-> get_lower15bits(part_size),
                      flags |-> set_highest_bit_16(part_size, parts_len = 1)])
  /\ UNCHANGED << dir_salt, container, self_salt, stored, lastOp, dirty, reader, dio, cn, writer >>

NextSizes == ConfigureSize \/ EncryptSized

SpecSizes == InitDecoder /\ [][NextSizes]_vars

(***************************************************************************)
(* One call of a 16-bit flag helper.                                       *)
(***************************************************************************)
\* the words tried: the small ones, and those around each power of two up to
\* 2^17, with some below 0 and above 0xFFFF
BitInputs ==
  ((-2) .. 64) \cup {Pow2(k) + d : k \in 7 .. 17, d \in {-1, 0, 1}}

\* get_highest_bit_16(x)
CallGetHighestBit ==
  /\ IsNone(call)
  /\ \E x \in BitInputs :
     \E r \in {get_highest_bit_16(x)} :
        call' = Some([fn |-> "get_highest_bit_16", x |-> x, value |-> FALSE,
                      err |-> r.err, out |-> IF r.err = "ok" THEN Some(r.v) ELSE None])
  /\ UNCHANGED << dir_salt, container, self_salt, stored, lastOp, dirty, reader, dio, cn, writer >>

\* set_highest_bit_16(x, value)
CallSetHighestBit ==
  /\ IsNone(call)
  /\ \E x \in BitInputs, value \in BOOLEAN :
     \E r \in {set_highest_bit_16(x, value)} :
        call' = Some([fn |-> "set_highest_bit_16", x |-> x, value |-> value,
                      err |-> r.err, out |-> IF r.err = "ok" THEN Some(r.v) ELSE None])
  /\ UNCHANGED << dir_salt, container, self_salt, stored, lastOp, dirty, reader, dio, cn, writer >>

\* get_lower15bits(x): the function has no raise
CallGetLower15 ==
  /\ IsNone(call)
  /\ \E x \in BitInputs :
        call' = Some([fn |-> "get_lower15bits", x |-> x, value |-> FALSE,
                      err |-> "ok", out |-> Some(get_lower15bits(x))])
  /\ UNCHANGED << dir_salt, container, self_salt, stored, lastOp, dirty, reader, dio, cn, writer >>

NextBits == CallGetHighestBit \/ CallSetHighestBit \/ CallGetLower15

SpecBits == InitDecoder /\ [][NextBits]_vars

(***************************************************************************)
(* One codename turned into its block and back.                            *)
(***************************************************************************)
\* a string of len characters "a", with the character ch at position pos
\* when pos is not 0
StringWith(len, pos, ch) == [i \in 1 .. len |-> IF i = pos THEN ch ELSE 97]

\* the strings tried: every length up to one more than CODENAME_LENGTH, plain,
\* or with a NUL, another letter or a non-ASCII character first or last
CodenameInputs ==
  {StringWith(len, pos, ch) :
     len \in 0 .. (CODENAME_LENGTH + 1), pos \in {0, 1, CODENAME_LENGTH, CODENAME_LENGTH + 1},
     ch \in {0, 98, 200}}

\* codename_to_bytes(s)
EncodeCodename ==
  /\ IsNone(cn)
  /\ \E s \in CodenameInputs, draw \in RandomDraws :
     \E r \in {codename_to_bytes(s, draw)} :
        cn' = Some([s |-> s, draw |-> draw, err |-> r.err, bytes |-> r.bytes,
                    back |-> None])
  /\ UNCHANGED << dir_salt, container, self_salt, stored, lastOp, dirty, reader, dio, writer, call >>

\* bytes_to_codename of the block
DecodeCodename ==
  /\ ~IsNone(cn)
  /\ ~IsNone(Val(cn).bytes)
  /\ IsNone(Val(cn).back)
  /\ cn' = Some([Val(cn) EXCEPT !.back = Some(bytes_to_codename(Val(Val(cn).bytes)))])
  /\ UNCHANGED << dir_salt, container, self_salt, stored, lastOp, dirty, reader, dio, writer, call >>

NextCodename == EncodeCodename \/ DecodeCodename

SpecCodename == InitDecoder /\ [][NextCodename]_vars

(***************************************************************************)
(* Properties.                                                             *)
(***************************************************************************)
Opened == ~IsNone(self_salt)

Key(name) == CodenameKey(name, Val(self_salt))

Group(name) == NameGroup(BlobsIndexedReader(container), Key(name))

Present(p) == [err |-> "ok", v |-> Some(p)]

Absent == [err |-> "ok", v |-> None]

HasValue(name) == stored[name][1] = "value"

Ceil(n, d) == (n + d - 1) \div d

\* C1: after a completed set(c, p), get(c) returns exactly p, from the instance
\* that wrote it and from an instance newly opened on the same container
C1_RoundTrip ==
  lastOp.op = "set" =>
    /\ get(Val(self_salt), lastOp.name, container) = Present(stored[lastOp.name][2])
    /\ get(Val(dir_salt), lastOp.name, container) = Present(stored[lastOp.name][2])

\* a multi-part value was just set in a container that holds another name
C1_Witness ==
  /\ lastOp = Op("set", "alice")
  /\ Len(stored["alice"][2]) > MAX_CLUSTER_CONTENT_SIZE
  /\ HasValue("bob")

\* every cluster that does not match the key k is in new as often as in old
Carried(k, old, new) ==
  \A x \in DOMAIN old \cup DOMAIN new :
    ~pk_matches_imprint_bytes(k, x.imprint) => CopiesIn(x, new) = CopiesIn(x, old)

\* C2: an update of one codename leaves the value read under every other
\* codename unchanged, and every cluster that does not match the updated key is
\* in the rewritten container as often as it was in the old one
C2_Frame ==
  [][(Opened /\ lastOp'.op \in {"set", "delete"} /\ container' # container) =>
       /\ \A o \in DOMAIN stored \ {lastOp'.name} :
            get(Val(self_salt'), o, container') = get(Val(self_salt), o, container)
       /\ Carried(Key(lastOp'.name), container.clusters, container'.clusters)
    ]_vars

\* a value was deleted while another name held a value and a random cluster of
\* the creation was in the container
C2_Witness ==
  /\ lastOp = Op("delete", "alice")
  /\ stored["alice"] = Deleted(TRUE)
  /\ HasValue("bob")
  /\ \E x \in DOMAIN container.clusters : x.imprint.tag = ImprintTag(RandomKey, x.imprint.nonce)

\* no cluster of the key k among clusters carries old_version
Replaced(k, old_version, clusters) ==
  \A x \in DOMAIN clusters :
    belongs_to_namegroup(k, x) =>
      /\ header(k, x).err = "ok"
      /\ Val(header(k, x).h).data_version # old_version

\* C3: a set of a codename that holds a value makes get return the new value,
\* and no cluster matching the key carries the version of the earlier write
C3_Overwrite ==
  [][(Opened /\ lastOp'.op = "set" /\ container' # container
        /\ stored[lastOp'.name][1] = "value") =>
       /\ get(Val(self_salt'), lastOp'.name, container')
            = Present(stored'[lastOp'.name][2])
       /\ Replaced(Key(lastOp'.name), Group(lastOp'.name).max_version,
                   container'.clusters)
    ]_vars

\* the second write of a name: its fresh set carries version 2
C3_Witness ==
  /\ lastOp = Op("set", "alice")
  /\ Opened
  /\ Group("alice").max_version = U32(0, 2)
  /\ stored["alice"] = Value(Pattern(MaxLen, 1))

\* C4: get of a codename that was never set returns None
C4_NeverSet ==
  Opened => \A c \in DOMAIN stored :
              stored[c] = Never => get(Val(self_salt), c, container) = Absent

\* a never-set name is read from a container holding another name's value
C4_Witness ==
  /\ Opened
  /\ stored["bob"] = Never
  /\ HasValue("alice")
  /\ BagCardinality(Group("alice").reals) = 2
  /\ BagCardinality(container.clusters) > 2

\* C5: a name set to the empty value reads as present with zero length, not
\* as None, while a never-set name of the same container reads as None
C5_EmptyValue ==
  LET present_empty(r) == r.err = "ok" /\ ~IsNone(r.v) /\ Len(Val(r.v)) = 0
  IN \A c \in DOMAIN stored :
       (HasValue(c) /\ stored[c][2] = << >>) =>
          /\ present_empty(get(Val(self_salt), c, container))
          /\ \A o \in DOMAIN stored :
               stored[o] = Never => IsNone(get(Val(self_salt), o, container).v)

\* the empty value was just set and the other name was never set
C5_Witness ==
  /\ lastOp = Op("set", "alice")
  /\ stored["alice"] = Value(<< >>)
  /\ stored["bob"] = Never

\* C6: after delete(c) every cluster matching the key of c is a decoy, with
\* the decoy version, and get(c) returns None
C6_Delete ==
  LET only_decoys(k, g) ==
        /\ g.err = "ok"
        /\ BagCardinality(g.reals) = 0
        /\ \A x \in DOMAIN g.matching :
             /\ is_fake_io(k, x)
             /\ Val(header(k, x).h).data_version = FAKE_CONTENT_VERSION
  IN \A c \in DOMAIN stored :
       stored[c][1] = "deleted" =>
          /\ only_decoys(Key(c), Group(c))
          /\ get(Val(self_salt), c, container) = Absent

\* a name that held a value was just deleted and a decoy of its key was written
C6_Witness ==
  /\ lastOp = Op("delete", "alice")
  /\ stored["alice"] = Deleted(TRUE)
  /\ BagCardinality(Group("alice").matching) > 0

RECURSIVE SumPartSizes(_, _)
SumPartSizes(k, b) ==
  IF DOMAIN b = {} THEN 0
  ELSE LET c == CHOOSE x \in DOMAIN b : TRUE
       IN b[c] * Val(header(k, c).h).part_size
          + SumPartSizes(k, [y \in DOMAIN b \ {c} |-> b[y]])

PartSizesFit(k, reals, n) ==
  /\ \A x \in DOMAIN reals :
       ~Val(header(k, x).h).is_last_part =>
          Val(header(k, x).h).part_size = MAX_CLUSTER_CONTENT_SIZE
  /\ SumPartSizes(k, reals) = n

EncodedLen(n, target_size) ==
  LET real == io_to_io(Encrypt(RandomKey, U32(0, 1), target_size, 0, 1, Some(n)).self,
                       Some(Pattern(n, 0)), "n1", 0)
  IN IF real.err # "ok" THEN -1 ELSE ClusterLen(real.out[1])

DecoyLen(target_size) ==
  LET fake == io_to_io(Encrypt(RandomKey, U32(0, 0), target_size, 0, 1, None).self,
                       None, "n1", 7)
  IN IF fake.err # "ok" THEN -1 ELSE ClusterLen(fake.out[1])

C9_FreshSet ==
  LET indexed(k, fresh, P) ==
        /\ P >= 1
        /\ \A x \in DOMAIN fresh : fresh[x] = 1
        /\ {Val(header(k, x).h).part_idx : x \in DOMAIN fresh} = 0 .. (P - 1)
        /\ Cardinality({x \in DOMAIN fresh : Val(header(k, x).h).is_last_part}) = 1
        /\ \A x \in DOMAIN fresh :
             Val(header(k, x).h).is_last_part
               <=> (Val(header(k, x).h).part_idx = P - 1)
      checked(k, g) ==
        /\ g.err = "ok"
        /\ indexed(k, g.fresh, BagCardinality(g.fresh))
  IN \A c \in DOMAIN stored : HasValue(c) => checked(Key(c), Group(c))

\* two names hold values, one of them in two parts, after several updates
C9_Witness ==
  /\ HasValue("alice")
  /\ HasValue("bob")
  /\ BagCardinality(Group("alice").fresh) = 2
  /\ Group("alice").max_version = U32(0, 2)

\* the fresh set of c is not a complete value
Incomplete(c) ==
  LET broken(k, fresh, P) ==
        /\ P >= 1
        /\ \/ \E x \in DOMAIN fresh : fresh[x] > 1
           \/ {Val(header(k, x).h).part_idx : x \in DOMAIN fresh} # 0 .. (P - 1)
           \/ Cardinality({x \in DOMAIN fresh :
                             Val(header(k, x).h).is_last_part}) # 1
           \/ \E x \in DOMAIN fresh :
                /\ Val(header(k, x).h).is_last_part
                /\ Val(header(k, x).h).part_idx # P - 1
      of(k, g) == g.err = "ok" /\ broken(k, g.fresh, BagCardinality(g.fresh))
  IN of(Key(c), Group(c))

\* a set of c with the value p, all draws fixed
SetResult(c, p) ==
  update_namegroup(Some(p), Key(c), container,
                   [i \in 1 .. Len(split_sizes(Len(p))) |-> "n1"], << >>, 1)

\* C10: when the real clusters of the highest version of a name-group are not
\* a complete value, the name-group has no fresh content and get returns None
\* without an error; a set of the name then succeeds and get returns its value
C10_Incomplete ==
  LET recovered(c, p, r) ==
        /\ r.err = "ok"
        /\ get(Val(self_salt), c, r.container) = Present(p)
  IN \A c \in DOMAIN stored :
       (Opened /\ Incomplete(c)) =>
          /\ Len(Group(c).fresh_content_files) = 0
          /\ get(Val(self_salt), c, container) = Absent
          /\ \A p \in Plaintexts(c) : recovered(c, p, SetResult(c, p))

\* the one flagged cluster of the damaged fresh set is not at the highest index
C10_Witness ==
  /\ Opened
  /\ lastOp = Op("damage", "alice")
  /\ Incomplete("alice")
  /\ BagCardinality(Group("alice").fresh) = 3
  /\ \A x \in DOMAIN Group("alice").fresh : Group("alice").fresh[x] = 1
  /\ {Val(header(Key("alice"), x).h).part_idx : x \in DOMAIN Group("alice").fresh}
       = 0 .. 2
  /\ \E x \in DOMAIN Group("alice").fresh :
       /\ Val(header(Key("alice"), x).h).is_last_part
       /\ Val(header(Key("alice"), x).h).part_idx = 1

\* the version a set of name wrote into clusters: one above old_version,
\* carried by every real cluster of the key
Advanced(k, old_version, g) ==
  /\ g.err = "ok"
  /\ U32Less(old_version, g.max_version)
  /\ g.max_version = U32Succ(old_version)
  /\ g.max_version # FAKE_CONTENT_VERSION
  /\ BagCardinality(g.reals) >= 1
  /\ g.fresh = g.reals

\* a set of c is refused and gives the container back as it is
Exhausted(c) ==
  \A p \in Plaintexts(c) :
    SetResult(c, p) = [err |-> "VersionExhausted", container |-> container]

\* C11: a set writes the version one above the highest real version of the
\* name-group, or 1 when it has none, so the version grows from set to set; the
\* clusters of a value never carry FAKE_CONTENT_VERSION, and a set at the
\* version one below it fails with VersionExhausted and changes nothing
C11_Versions ==
  /\ [](\A c \in DOMAIN stored :
          /\ HasValue(c) => /\ BagCardinality(Group(c).reals) >= 1
                            /\ U32Less(Group(c).max_version, FAKE_CONTENT_VERSION)
          /\ (Group(c).max_version = U32(65535, 65534)) => Exhausted(c))
  /\ [][(lastOp'.op = "set" /\ container' # container) =>
          Advanced(Key(lastOp'.name), Group(lastOp'.name).max_version,
                   NameGroup(BlobsIndexedReader(container'), Key(lastOp'.name)))
       ]_vars

\* the last version below the decoy version was just written
C11_Witness ==
  /\ lastOp = Op("set", "alice")
  /\ Group("alice").max_version = U32(65535, 65534)
  /\ Len(stored["alice"][2]) > MAX_CLUSTER_CONTENT_SIZE

\* what get returns for a name the updates left as s
ResultOf(s) == IF s[1] = "value" THEN Present(s[2]) ELSE Absent

\* the container is what it was when the update d began and every get returns
\* what the completed updates left
Untouched(d, file) ==
  /\ file = d.orig
  /\ \A c \in DOMAIN stored : get(Val(self_salt), c, file) = ResultOf(stored[c])

\* C12: while an update has not reached its replace, and after it failed or
\* was given up at any step before it, the container is what it was when the
\* update began and get of every name returns what it returned then
C12_AllOrNothing ==
  /\ [](~IsNone(dirty) => Untouched(Val(dirty), container))
  /\ [][(~IsNone(dirty) /\ IsNone(dirty') /\ lastOp'.op = "abort") =>
          /\ Untouched(Val(dirty), container')
          /\ stored' = stored
       ]_vars

\* an update of one name was given up after it wrote clusters to the temp
\* file, in a container that holds values of both names
C12_Witness ==
  /\ lastOp.op = "abort"
  /\ lastOp.name = "alice"
  /\ lastOp.written >= 2
  /\ HasValue("alice")
  /\ HasValue("bob")

\* C13: a get that is open while the single writer updates returns the value
\* its name had when it opened or the value it has now, without an error
C13_Readers ==
  LET seen(r, name, at_open) ==
        /\ r.err = "ok"
        /\ r = ResultOf(at_open) \/ r = ResultOf(stored[name])
  IN ~IsNone(reader) =>
       seen(get(Val(self_salt), Val(reader).name, ReaderFile),
            Val(reader).name, Val(reader).at_open)

\* a get of a name opened before a replace that changed the value of the name,
\* and the next update is already writing its temp file
C13_Witness ==
  /\ ~IsNone(reader)
  /\ Val(reader).name = "alice"
  /\ ~IsNone(Val(reader).file)
  /\ Val(reader).at_open = Value(Pattern(MaxLen, 0))
  /\ stored["alice"] = Value(Pattern(MaxLen, 1))
  /\ ~IsNone(dirty)
  /\ BagCardinality(Val(dirty).w.target_io.clusters) >= 1

\* C14: the salt is written when a directory without a salt is opened, and by
\* nothing else; once written it never changes, whatever is opened, set or
\* deleted, and every open instance holds the salt of the container
C14_SaltOnce ==
  /\ [](Opened => self_salt = dir_salt)
  /\ [][~IsNone(dir_salt) => dir_salt' = dir_salt]_vars
  /\ [][(IsNone(dir_salt) /\ ~IsNone(dir_salt')) =>
          (lastOp'.op = "open" /\ self_salt' = dir_salt')]_vars

\* the directory was created with the second salt, and a value was set twice
C14_Witness ==
  /\ dir_salt = Some("s2")
  /\ self_salt = Some("s2")
  /\ lastOp = Op("set", "alice")
  /\ Group("alice").max_version = U32(0, 2)

\* a set of name stored a non-empty value into a container without clusters
FirstSet ==
  /\ Opened
  /\ lastOp'.op = "set"
  /\ container' # container
  /\ BlobsIndexedReader(container).len = 0
  /\ Len(stored'[lastOp'.name][2]) > 0

\* the container has clusters, a tail and a content cluster of the key
HasContent(k, file) ==
  /\ BlobsIndexedReader(file).len > 0
  /\ tail_size(BlobsIndexedReader(file)) > 0
  /\ \E x \in DOMAIN file.clusters : is_content_io(k, x)

HasDecoy(k, file) == \E x \in DOMAIN file.clusters : is_fake_io(k, x)

OwnKey == belongs_to_namegroup(Val(dio).obj.fpk, Val(dio).orig)

\* the calls of dio that returned a value, and the first call of an operation
Returned(i) == ~IsNone(Val(dio).log[i].out)

FirstOf(op, i) ==
  /\ Val(dio).log[i].op = op
  /\ \A j \in 1 .. (i - 1) : Val(dio).log[j].op # op

\* the header and the body the cluster held before a bit was flipped
OrigHeader == header(Val(dio).obj.fpk, Val(dio).orig).h

OrigBody == Some(read_data(Val(dio).obj.fpk, Val(dio).orig).body)

\* a flipped bit is found: by the header checksum when it is in the encrypted
\* header or its checksum, whichever call comes first; by the body CRC in the
\* first read_data when it is in the body; and no call returns a header or a
\* body that the cluster did not hold before the flip
Detected ==
  (~IsNone(dio) /\ OwnKey /\ Val(dio).tamper.kind # "none") =>
     \A i \in DOMAIN Val(dio).log :
        /\ (Val(dio).tamper.kind \in {"hdr", "mac"}) =>
              /\ ~Returned(i)
              /\ (i = 1) => Val(dio).log[i].err = "ChecksumMismatch"
              /\ IsNone(Val(dio).obj.hdr)
        /\ (Val(dio).tamper.kind = "body") =>
              /\ (Val(dio).log[i].op = "header") =>
                    /\ Val(dio).log[i].err = "ok"
                    /\ Val(dio).log[i].out = OrigHeader
              /\ (Val(dio).log[i].op = "read_data") => ~Returned(i)
              /\ FirstOf("read_data", i) => Val(dio).log[i].err = "ChecksumMismatch"

\* the error the header checksum raises when a bit of the encrypted header of
\* the cluster c is flipped
HeaderErrorKind(c) ==
  header(CodenameKey("alice", "s1"),
         Tamper(c, [kind |-> "hdr", at |-> 1, bit |-> 0])).err

\* the first read_data on a cluster with a flipped body bit failed with kind
BodyFailure(i) ==
  /\ ~IsNone(dio)
  /\ OwnKey
  /\ Val(dio).tamper.kind = "body"
  /\ FirstOf("read_data", i)

\* C16 as the code has it: a flipped bit of the encrypted header or of its
\* checksum fails the header checksum before a header is returned, a flipped
\* bit of the body fails the body CRC in read_data, no corrupted data is
\* returned, and both failures are raised as the one error ChecksumMismatch
C16_Detected ==
  /\ Detected
  /\ ~IsNone(dio) =>
       \A i \in DOMAIN Val(dio).log :
          BodyFailure(i) =>
            /\ Val(dio).log[i].err = "ChecksumMismatch"
            /\ HeaderErrorKind(Val(dio).orig) = "ChecksumMismatch"

\* C16 as stated: the flipped bits are found as above, and the error of the
\* body CRC is of another kind than the error of the header checksum
C16_Original ==
  /\ Detected
  /\ ~IsNone(dio) =>
       \A i \in DOMAIN Val(dio).log :
          BodyFailure(i) => Val(dio).log[i].err # HeaderErrorKind(Val(dio).orig)

\* a bit of the last body byte was flipped: the header was read, and
\* read_data failed
C16_Witness ==
  /\ ~IsNone(dio)
  /\ OwnKey
  /\ Val(dio).tamper.kind = "body"
  /\ Val(dio).tamper.at = MAX_CLUSTER_CONTENT_SIZE
  /\ Len(Val(dio).log) = 2
  /\ Val(dio).log[1].op = "header"
  /\ Val(dio).log[2] = [op |-> "read_data", err |-> "ChecksumMismatch", out |-> None]

\* C17: once read_data has returned the body, every later read_data on the
\* same object raises an error and returns nothing
C17_SingleShot ==
  ~IsNone(dio) =>
     \A i \in DOMAIN Val(dio).log, j \in DOMAIN Val(dio).log :
        (i < j /\ Val(dio).log[i].op = "read_data" /\ Val(dio).log[i].err = "ok"
           /\ Val(dio).log[j].op = "read_data") =>
          /\ Val(dio).log[j].err = "RuntimeError"
          /\ ~Returned(j)

\* read_data returned the body of an untouched cluster and was called twice more
C17_Witness ==
  /\ ~IsNone(dio)
  /\ Val(dio).tamper.kind = "none"
  /\ Len(Val(dio).log) = 3
  /\ Val(dio).log[1].op = "read_data"
  /\ Val(dio).log[1].err = "ok"
  /\ Val(dio).log[1].out = OrigBody
  /\ Len(Val(OrigBody)) = MAX_CLUSTER_CONTENT_SIZE
  /\ Val(dio).log[2].op = "read_data"
  /\ Val(dio).log[3].op = "read_data"

IsAscii(s) == \A i \in 1 .. Len(s) : s[i] <= 127

HasNul(s) == \E i \in 1 .. Len(s) : s[i] = 0

\* a codename as the data model defines it
ValidCodename(s) ==
  /\ 1 <= Len(s) /\ Len(s) <= CODENAME_LENGTH
  /\ IsAscii(s)
  /\ ~HasNul(s)

\* C18: the block of a valid codename has CODENAME_LENGTH bytes and decodes to
\* the codename, whatever the padding is, NULs in it included, and also when
\* the codename fills the block and no NUL follows it
C18_CodenameRoundTrip ==
  (~IsNone(cn) /\ ValidCodename(Val(cn).s)) =>
     /\ Val(cn).err = "ok"
     /\ Len(Val(Val(cn).bytes)) = CODENAME_LENGTH
     /\ ~IsNone(Val(cn).back) =>
           Val(Val(cn).back) = [err |-> "ok", s |-> Some(Val(cn).s)]

\* a codename two characters shorter than the block was padded with a NUL
\* and decoded
C18_Witness ==
  /\ ~IsNone(cn)
  /\ ValidCodename(Val(cn).s)
  /\ Len(Val(cn).s) = CODENAME_LENGTH - 2
  /\ Val(cn).draw = "nul"
  /\ Val(Val(cn).bytes)[CODENAME_LENGTH] = 0
  /\ ~IsNone(Val(cn).back)

\* C19 as the code has it: codename_to_bytes accepts the ASCII strings of
\* length 0 to CODENAME_LENGTH without NUL, the empty string included, and
\* raises an error and gives no bytes for every other string
C19_Accepted ==
  ~IsNone(cn) =>
     /\ (Val(cn).err = "ok") <=>
           (Len(Val(cn).s) <= CODENAME_LENGTH /\ IsAscii(Val(cn).s)
              /\ ~HasNul(Val(cn).s))
     /\ (Val(cn).err # "ok") <=> IsNone(Val(cn).bytes)

\* C19 as stated: codename_to_bytes accepts exactly the valid codenames, of
\* length 1 to CODENAME_LENGTH, and gives no bytes for any other string
C19_Original ==
  ~IsNone(cn) =>
     /\ (Val(cn).err = "ok") <=> ValidCodename(Val(cn).s)
     /\ (Val(cn).err # "ok") <=> IsNone(Val(cn).bytes)

\* a string one character longer than the block, without NUL, was refused
C19_Witness ==
  /\ ~IsNone(cn)
  /\ Len(Val(cn).s) = CODENAME_LENGTH + 1
  /\ IsAscii(Val(cn).s)
  /\ ~HasNul(Val(cn).s)
  /\ Val(cn).err = "ValueError"
  /\ IsNone(Val(cn).bytes)

\* the keys a cluster is tried with: each codename under each salt, and the
\* key of the random clusters
MatchKeys == {CodenameKey(c, s) : c \in Codenames, s \in TwoSalts} \cup {RandomKey}

MatchNonces == Nonces \cup {"n2"}

\* the keys whose name-group takes the cluster x
KeysOf(x) == {k \in MatchKeys : belongs_to_namegroup(k, x)}

\* C20: the imprint made from a key and any nonce matches that key and no
\* other key; a cluster of the container is taken by the name-group of the key
\* it was encrypted with and by no other, so by at most one
C20_ExactImprint ==
  /\ \A k \in MatchKeys, k2 \in MatchKeys, n \in MatchNonces :
        pk_matches_imprint_bytes(k2, Imprint(k, n)) <=> (k2 = k)
  /\ \A x \in DOMAIN container.clusters :
        /\ KeysOf(x) = {x.hdr.ek} \cap MatchKeys
        /\ Cardinality(KeysOf(x)) <= 1

\* under the second salt the container holds a cluster of alice and a random
\* cluster, each taken by its own key alone
C20_Witness ==
  /\ dir_salt = Some("s2")
  /\ \E x \in DOMAIN container.clusters, y \in DOMAIN container.clusters :
        /\ KeysOf(x) = {CodenameKey("alice", "s2")}
        /\ KeysOf(y) = {RandomKey}

\* the reader of the container with the source src among its clusters
ReaderWith(src) ==
  [BlobsIndexedReader(container) EXCEPT !.blobs = @ (+) SetToBag({src})]

\* C21: on a source shorter than the imprint belongs_to_namegroup and
\* contains_data give False and raise nothing, however often they are asked,
\* and the scan of a name-group that meets such a source gives what it gives
\* without it
C21_ShortSource ==
  (~IsNone(dio) /\ IsShort(Val(dio).obj.source)) =>
     /\ \A i \in 1 .. Len(Val(dio).log) :
           /\ Val(dio).log[i].err = "ok"
           /\ Val(dio).log[i].out = Some(FALSE)
     /\ ~belongs_to_namegroup(Val(dio).obj.fpk, Val(dio).obj.source)
     /\ contains_data(Val(dio).obj.fpk, Val(dio).obj.source) = [err |-> "ok", v |-> FALSE]
     /\ NameGroup(ReaderWith(Val(dio).obj.source), Val(dio).obj.fpk)
          = NameGroup(BlobsIndexedReader(container), Val(dio).obj.fpk)

\* a source one byte shorter than the imprint, opened under alice's key beside
\* her clusters, was asked both questions
C21_Witness ==
  /\ ~IsNone(dio)
  /\ Val(dio).obj.source = ShortSource(FULL_LEN - 1)
  /\ Val(dio).obj.fpk = CodenameKey("alice", "s1")
  /\ Val(dio).obj.pos = FULL_LEN - 1
  /\ DOMAIN NameGroup(BlobsIndexedReader(container), Val(dio).obj.fpk).reals # {}
  /\ \E i \in 1 .. Len(Val(dio).log), j \in 1 .. Len(Val(dio).log) :
        /\ Val(dio).log[i].op = "belongs_to_namegroup"
        /\ Val(dio).log[j].op = "contains_data"

\* the part io_to_io read from the source of the last cluster written
PartOf(op) ==
  IF IsNone(op.source) THEN << >>
  ELSE IF IsNone(op.args.part_size) THEN Val(op.source)
  ELSE SubSeq(Val(op.source), 1, Val(op.args.part_size))

\* call i of the log is the first call of op
FirstAnswer(op, i) ==
  /\ Val(dio).log[i].op = op
  /\ \A j \in 1 .. (i - 1) : Val(dio).log[j].op # op

\* C22: a cluster written from a part of a source, with arguments Encrypt
\* accepted, decodes under the same key to a header with the part_idx and the
\* data_version given, the length of the part as part_size, is_last_part set
\* exactly for the last index, and the CRC-32 of the part; read_data returns
\* the bytes of the part and none of the padding
C22_ClusterRoundTrip ==
  (~IsNone(dio) /\ lastOp.op = "io_to_io" /\ ~IsNone(lastOp.source)
     /\ Val(dio).obj.fpk = lastOp.enc.self.cnk) =>
     /\ ClusterLen(Val(dio).orig) = CLUSTER_SIZE
     /\ \A i \in 1 .. Len(Val(dio).log) :
           /\ (Val(dio).log[i].op = "header") =>
                 /\ Val(dio).log[i].err = "ok"
                 /\ Val(dio).log[i].out =
                      Some([content_crc32 |-> crc32(PartOf(lastOp)),
                            data_version |-> lastOp.args.data_version,
                            part_size |-> Len(PartOf(lastOp)),
                            part_idx |-> lastOp.args.part_idx,
                            is_last_part |->
                              (lastOp.args.part_idx = lastOp.args.parts_len - 1)])
           /\ FirstAnswer("read_data", i) =>
                 /\ Val(dio).log[i].err = "ok"
                 /\ Val(dio).log[i].out = Some(PartOf(lastOp))

\* the last of MAX_PART_IDX + 1 parts, MAX_CLUSTER_CONTENT_SIZE bytes taken
\* from a longer source, was written, its header decoded and its body read
C22_Witness ==
  /\ ~IsNone(dio)
  /\ lastOp.op = "io_to_io"
  /\ Val(dio).obj.fpk = lastOp.enc.self.cnk
  /\ lastOp.args.part_idx = MAX_PART_IDX
  /\ lastOp.args.parts_len = MAX_PART_IDX + 1
  /\ lastOp.args.data_version = U32(1, 0)
  /\ lastOp.args.part_size = Some(MAX_CLUSTER_CONTENT_SIZE)
  /\ lastOp.source = Some(Pattern(MaxLen, 1))
  /\ Len(Val(dio).log) = 2
  /\ Val(dio).log[1].op = "header"
  /\ Val(dio).log[2].op = "read_data"
  /\ Val(dio).log[2].out = Some(Pattern(MAX_CLUSTER_CONTENT_SIZE, 1))

\* a cluster was written and a decoder opened on it
Written == ~IsNone(dio) /\ lastOp.op = "io_to_io"

WriterKey == Val(dio).obj.fpk = lastOp.enc.self.cnk

\* the header of the cluster written, under the key of the decoder
WrittenHeader == Val(header(Val(dio).obj.fpk, Val(dio).orig).h)

IsContent == is_content_io(Val(dio).obj.fpk, Val(dio).orig)

IsFake == is_fake_io(Val(dio).obj.fpk, Val(dio).orig)

\* at most one of is_content_io and is_fake_io holds of a cluster and a key,
\* and neither when the imprint does not match the key
Exclusive ==
  /\ ~(IsContent /\ IsFake)
  /\ ~belongs_to_namegroup(Val(dio).obj.fpk, Val(dio).orig) => (~IsContent /\ ~IsFake)

\* C23 as the code has it: the classification is exclusive; a cluster
\* written without a source carries FAKE_CONTENT_VERSION, and part_size 0
\* when Encrypt was given no part_size, and is a decoy; a cluster written from
\* a source carries the data_version given and is content exactly when that
\* version is not FAKE_CONTENT_VERSION, a decoy when it is
C23_Classified ==
  Written =>
     /\ Exclusive
     /\ (WriterKey /\ IsNone(lastOp.source)) =>
           /\ WrittenHeader.data_version = FAKE_CONTENT_VERSION
           /\ IsNone(lastOp.args.part_size) => WrittenHeader.part_size = 0
           /\ IsFake /\ ~IsContent
     /\ (WriterKey /\ ~IsNone(lastOp.source)) =>
           /\ WrittenHeader.data_version = lastOp.args.data_version
           /\ IsContent <=> (lastOp.args.data_version # FAKE_CONTENT_VERSION)
           /\ IsFake <=> (lastOp.args.data_version = FAKE_CONTENT_VERSION)

\* C23 as stated: the classification is exclusive; a cluster written without
\* a source carries part_size 0 and FAKE_CONTENT_VERSION and is a decoy; a
\* cluster written from a source, with any data_version Encrypt accepted,
\* does not carry FAKE_CONTENT_VERSION and is content
C23_Original ==
  Written =>
     /\ Exclusive
     /\ (WriterKey /\ IsNone(lastOp.source)) =>
           /\ WrittenHeader.data_version = FAKE_CONTENT_VERSION
           /\ WrittenHeader.part_size = 0
           /\ IsFake /\ ~IsContent
     /\ (WriterKey /\ ~IsNone(lastOp.source)) =>
           /\ WrittenHeader.data_version # FAKE_CONTENT_VERSION
           /\ IsContent /\ ~IsFake

\* a cluster written from a source with FAKE_CONTENT_VERSION as its
\* data_version was classified under the key of its writer
C23_Witness ==
  /\ Written
  /\ WriterKey
  /\ lastOp.source = Some(Pattern(1, 0))
  /\ lastOp.args.data_version = FAKE_CONTENT_VERSION
  /\ IsFake

Matching == belongs_to_namegroup(Val(dio).obj.fpk, Val(dio).obj.source)

\* on a cluster whose imprint does not match the key every call raises
\* GroupImprintMismatch, reads nothing past the imprint and decrypts nothing
NoHeaderWithoutImprint ==
  ~Matching =>
     /\ Val(dio).obj.pos <= FULL_LEN
     /\ Val(dio).obj.decrypted = 0
     /\ Val(dio).obj.header_reads = 0
     /\ \A i \in 1 .. Len(Val(dio).log) : Val(dio).log[i].err = "GroupImprintMismatch"

\* a read_data that returned a body read it from offset CLUSTER_META_SIZE,
\* after a header whose checksum was right
BodyAfterHeader ==
  \A i \in 1 .. Len(Val(dio).log) :
     (Val(dio).log[i].op = "read_data" /\ Val(dio).log[i].err = "ok") =>
        /\ ~IsNone(Val(dio).obj.hdr)
        /\ Val(dio).obj.pos = CLUSTER_META_SIZE + Len(Val(Val(dio).log[i].out))
        /\ Val(dio).obj.decrypted = Val(dio).obj.pos

\* a call failed on the header checksum or on the end of the stream
HeaderFailed ==
  \E i \in 1 .. Len(Val(dio).log) :
     /\ Val(dio).log[i].err \in {"ChecksumMismatch", "InsufficientData"}
     /\ IsNone(Val(dio).obj.hdr)

\* C24 as the code has it: nothing is decrypted on a cluster of another key,
\* a body is read from offset CLUSTER_META_SIZE after a verified header, and a
\* header whose checksum was right is read once; only after a header read
\* failed does a later access read the stream again, past the header
C24_LazyDecoder ==
  ~IsNone(dio) =>
     /\ NoHeaderWithoutImprint
     /\ BodyAfterHeader
     /\ ~IsNone(Val(dio).obj.hdr) => Val(dio).obj.header_reads = 1
     /\ (Val(dio).obj.header_reads > 1 \/ (IsNone(Val(dio).obj.hdr)
                                            /\ Val(dio).obj.pos > CLUSTER_META_SIZE))
          => HeaderFailed

\* C24 as stated: nothing is decrypted on a cluster of another key, no byte
\* past the header is read or decrypted unless the header checksum was right,
\* the header is read from the stream at most once, and a body is read from
\* offset CLUSTER_META_SIZE
C24_Original ==
  ~IsNone(dio) =>
     /\ NoHeaderWithoutImprint
     /\ BodyAfterHeader
     /\ Val(dio).obj.header_reads <= 1
     /\ IsNone(Val(dio).obj.hdr) =>
           (Val(dio).obj.pos <= CLUSTER_META_SIZE
              /\ Val(dio).obj.decrypted <= CLUSTER_META_SIZE)

\* the header of an untouched cluster was accessed twice and its body read:
\* one header read, the stream at the end of the body
C24_Witness ==
  /\ ~IsNone(dio)
  /\ Matching
  /\ Val(dio).tamper = NotTampered
  /\ Len(Val(dio).log) = 3
  /\ Val(dio).log[1].op = "header"
  /\ Val(dio).log[2].op = "header"
  /\ Val(dio).log[3].op = "read_data"
  /\ Val(dio).log[3].err = "ok"
  /\ Val(dio).obj.header_reads = 1
  /\ Val(dio).obj.pos = CLUSTER_META_SIZE + MAX_CLUSTER_CONTENT_SIZE

\* call i of the writer's log wrote the tail
TailWrittenAt(i) ==
  Val(writer).log[i].op = "write_tail" /\ Val(writer).log[i].err = "ok"

Span == StreamSize(Val(call).stream) - Val(call).stream.start

\* the view of cluster i: CLUSTER_SIZE bytes from start + i * CLUSTER_SIZE
ViewOf(i) == FragmentIO(Val(call).stream.start + i * CLUSTER_SIZE, CLUSTER_SIZE)

\* C26: the reader splits the bytes from its starting offset to the end of
\* the stream into len whole clusters and a rest, tail_size, shorter than a
\* cluster; io(i) is the view of the bytes of cluster i for 0 <= i < len and
\* raises IndexError for every other index; iteration yields the len views
\* in index order; no view reaches before the starting offset or into the rest
C26_ReaderPartition ==
  (~IsNone(call) /\ Val(call).fn = "BlobsIndexedReader") =>
     /\ Val(call).reader.len * CLUSTER_SIZE + tail_size(Val(call).reader) = Span
     /\ 0 <= tail_size(Val(call).reader) /\ tail_size(Val(call).reader) < CLUSTER_SIZE
     /\ Val(call).stream.tail < CLUSTER_SIZE =>
           /\ Val(call).reader.len = BagCardinality(Val(call).stream.clusters)
           /\ tail_size(Val(call).reader) = Val(call).stream.tail
     /\ ~IsNone(Val(call).asked) =>
           IF Val(call).asked[1] < 0 \/ Val(call).asked[1] >= Val(call).reader.len
           THEN Val(call).got[1] = [err |-> "IndexError", io |-> None]
           ELSE /\ Val(call).got[1] = [err |-> "ok", io |-> Some(ViewOf(Val(call).asked[1]))]
                /\ Val(call).got[1].io[1].offset >= Val(call).stream.start
                /\ Val(call).got[1].io[1].offset + Val(call).got[1].io[1].size
                     <= StreamSize(Val(call).stream) - tail_size(Val(call).reader)
     /\ ~IsNone(Val(call).views) =>
           /\ Len(Val(call).views[1]) = Val(call).reader.len
           /\ \A i \in 1 .. Len(Val(call).views[1]) : Val(call).views[1][i] = ViewOf(i - 1)

\* after a salt region, two clusters and a tail one byte short of a cluster:
\* the last cluster was asked for and the views were listed
C26_Witness ==
  /\ ~IsNone(call)
  /\ Val(call).fn = "BlobsIndexedReader"
  /\ Val(call).stream.start = SALT_REGION_LEN
  /\ Val(call).stream.tail = CLUSTER_SIZE - 1
  /\ Val(call).reader.len = MaxClusters
  /\ Val(call).asked = Some(MaxClusters - 1)
  /\ Val(call).got[1].err = "ok"
  /\ ~IsNone(Val(call).views)

\* an Encrypt was made in a build of some cluster size
Sized == ~IsNone(call) /\ Val(call).fn = "Encrypt"

\* the part_size fits the low 15 bits of the flag word and the flag is kept
FitsFlagWord ==
  /\ Val(call).err = "ok"
  /\ Val(call).low15 = Val(call).part_size
  /\ Val(call).flags.err = "ok"
  /\ get_lower15bits(Val(call).flags.v) = Val(call).part_size
  /\ get_highest_bit_16(Val(call).flags.v) = [err |-> "ok", v |-> Val(call).is_last_part]

\* C27 as amended: MAX_CLUSTER_CONTENT_SIZE = CLUSTER_SIZE - CLUSTER_META_SIZE
\* is at most 0x7FFF exactly for the cluster sizes up to 0x7FFF + 60; for
\* these every part_size from 0 to MAX_CLUSTER_CONTENT_SIZE fits the low 15
\* bits of the flag word and the assertion of Encrypt holds; for a greater
\* cluster size, 128 * 1024 among them, the assertion fails
C27_ContentSizeFits ==
  Sized =>
     /\ CLUSTER_META_SIZE = 60
     /\ (Val(call).max_content <= 32767)
          <=> (Val(call).cluster_size <= LARGEST_CLUSTER_SIZE)
     /\ Val(call).cluster_size <= LARGEST_CLUSTER_SIZE => FitsFlagWord
     /\ Val(call).cluster_size > LARGEST_CLUSTER_SIZE => Val(call).err = "AssertionError"

\* C27 as stated: with CLUSTER_SIZE = 128 * 1024 and CLUSTER_META_SIZE = 60,
\* MAX_CLUSTER_CONTENT_SIZE is at most 0x7FFF, every part_size up to it fits
\* the low 15 bits and the assertion of Encrypt does not fail
C27_Original ==
  (Sized /\ Val(call).cluster_size = DEFAULT_CLUSTER_SIZE) =>
     /\ CLUSTER_META_SIZE = 60
     /\ Val(call).max_content <= 32767
     /\ FitsFlagWord

\* the greatest content size that fits, as the size of the last part
C27_Witness ==
  /\ Sized
  /\ Val(call).cluster_size = LARGEST_CLUSTER_SIZE
  /\ Val(call).part_size = 32767
  /\ Val(call).is_last_part
  /\ Val(call).flags.v = 65535
  /\ Val(call).err = "ok"

\* a 16-bit word
IsWord(x) == 0 <= x /\ x <= 65535

\* a helper was called
Helper(fn) == ~IsNone(call) /\ Val(call).fn = fn

\* on a word set_highest_bit_16 gives a word whose highest bit is the value
\* given and whose low 15 bits are those of the argument
SetThenGet ==
  (Helper("set_highest_bit_16") /\ IsWord(Val(call).x)) =>
     /\ Val(call).err = "ok"
     /\ IsWord(Val(call).out[1])
     /\ get_highest_bit_16(Val(call).out[1]) = [err |-> "ok", v |-> Val(call).value]
     /\ get_lower15bits(Val(call).out[1]) = get_lower15bits(Val(call).x)
     /\ get_lower15bits(Val(call).x) = Val(call).x - 32768 * ((Val(call).x \div 32768) % 2)

\* get_highest_bit_16 and set_highest_bit_16 refuse what is not a word
HighBitHelpersReject ==
  /\ Helper("get_highest_bit_16") =>
        ((Val(call).err = "ValueError" /\ IsNone(Val(call).out)) <=> ~IsWord(Val(call).x))
  /\ Helper("set_highest_bit_16") =>
        ((Val(call).err = "ValueError" /\ IsNone(Val(call).out)) <=> ~IsWord(Val(call).x))
  /\ (Helper("get_highest_bit_16") /\ IsWord(Val(call).x)) =>
        Val(call).out = Some(Val(call).x >= 32768)

\* C28 as the code has it: the round trip of set_highest_bit_16 holds on the
\* words, get_highest_bit_16 and set_highest_bit_16 raise ValueError outside
\* 0..0xFFFF, and get_lower15bits raises nothing: it gives the low 15 bits of
\* any integer
C28_FlagHelpers ==
  /\ SetThenGet
  /\ HighBitHelpersReject
  /\ Helper("get_lower15bits") =>
        /\ Val(call).err = "ok"
        /\ 0 <= Val(call).out[1] /\ Val(call).out[1] <= 32767
        /\ (Val(call).x - Val(call).out[1]) % 32768 = 0

\* C28 as stated: the round trip holds on the words, and each of the three
\* helpers raises an error outside 0..0xFFFF
C28_Original ==
  /\ SetThenGet
  /\ HighBitHelpersReject
  /\ Helper("get_lower15bits") => ((Val(call).err # "ok") <=> ~IsWord(Val(call).x))

\* the highest bit of 0xFFFF was cleared
C28_Witness ==
  /\ Helper("set_highest_bit_16")
  /\ Val(call).x = 65535
  /\ Val(call).value = FALSE
  /\ Val(call).out = Some(32767)

\* an Encrypt object was asked for, with these arguments
Constructed == lastOp.op \in {"Encrypt", "io_to_io"}

\* the arguments the claim says are refused
BadArguments ==
  LET a == lastOp.args
  IN \/ ~(a.part_idx \in 0 .. 255)
     \/ ~(a.parts_len \in 1 .. 256)
     \/ ~IsNone(a.part_size) /\ ~(Val(a.part_size) \in 0 .. MAX_CLUSTER_CONTENT_SIZE)
     \/ IsNone(a.part_size) /\ ~(a.part_idx = 0 /\ a.parts_len = 1)

\* C29: the constructor of Encrypt raises ValueError exactly on a part_idx
\* outside 0..255, a parts_len outside 1..256, a part_size outside
\* 0..MAX_CLUSTER_CONTENT_SIZE or a missing part_size of a cluster that is not
\* the only part; nothing is written for a refused object, and every cluster
\* written is one of at most 256 parts
C29_ArgumentsRejected ==
  Constructed =>
     /\ (lastOp.enc.err = "ValueError") <=> BadArguments
     /\ lastOp.enc.err \in {"ok", "ValueError"}
     /\ lastOp.enc.err = "ValueError" =>
           lastOp.op = "Encrypt" /\ lastOp.out = << >> /\ IsNone(dio)
     /\ lastOp.out # << >> =>
           /\ lastOp.args.parts_len <= 256
           /\ lastOp.args.part_idx <= 255
           /\ Val(header(lastOp.enc.self.cnk, lastOp.out[1]).h).part_idx = lastOp.args.part_idx

\* a part_idx that fits the 16-bit field but not 0..255 was refused
C29_Witness ==
  /\ lastOp.op = "Encrypt"
  /\ lastOp.args.part_idx = MAX_PART_IDX + 1
  /\ lastOp.args.parts_len = MAX_PART_IDX + 1
  /\ lastOp.args.part_size = Some(1)
  /\ lastOp.enc.err = "ValueError"

====
